---- MODULE Spec2Model ----
(***************************************************************************)
(* Verification model of the Gekko/Broadway assembler front end:           *)
(*   Lexer (GekkoLexer.cpp), recursive-descent parser (GekkoParser.cpp)    *)
(*   and the IR generator plugin (GekkoIRGen.cpp).                         *)
(*                                                                         *)
(* Machine integers (u8/u16/u32/u64) are big-endian sequences of bytes,    *)
(* so that arithmetic modulo 2^8..2^64 is exact.  Source text is a string; *)
(* a character is a string of length one and the NUL returned by           *)
(* Lexer::Peek at the end of the input is the empty string.                *)
(***************************************************************************)
EXTENDS Integers, Sequences, FiniteSets, TLC

(***************************************************************************)
(* Fixed-width unsigned arithmetic                                         *)
(***************************************************************************)
Pow2(k) == CASE k = 0 -> 1 [] k = 1 -> 2 [] k = 2 -> 4 [] k = 3 -> 8
             [] k = 4 -> 16 [] k = 5 -> 32 [] k = 6 -> 64 [] k = 7 -> 128
             [] OTHER -> 256

\* 256^k for the four low bytes
Pow256(k) == CASE k = 0 -> 1 [] k = 1 -> 256 [] k = 2 -> 65536 [] OTHER -> 16777216

\* static_cast<uN>(x) of a small non-negative number; n is the width in bytes
FromNat(n, x) ==
  SubSeq([i \in 1..n |-> IF n - i > 3 THEN 0 ELSE (x \div Pow256(n - i)) % 256], 1, n)

U8(x) == FromNat(1, x)
U16(x) == FromNat(2, x)
U32(x) == FromNat(4, x)
U64(x) == FromNat(8, x)

\* u32 from its four bytes as written in hexadecimal
Hex32(a, b, c, d) == <<a, b, c, d>>

\* static_cast between unsigned widths: truncation or zero extension
Cast(v, n) ==
  IF Len(v) >= n THEN SubSeq(v, Len(v) - n + 1, Len(v))
  ELSE [i \in 1..(n - Len(v)) |-> 0] \o v

IsZero(v) == \A i \in 1..Len(v) : v[i] = 0

\* value as a number when only the two low bytes are set, else a large marker
SmallNat(v) ==
  IF \A i \in 1..(Len(v) - 2) : v[i] = 0
  THEN (IF Len(v) >= 2 THEN v[Len(v) - 1] * 256 ELSE 0) + v[Len(v)]
  ELSE 65536

\* the bytes of v as an explicit tuple
Bytes(v) == SubSeq(v, 1, Len(v))

\* the carries of the column sums v moved towards the first byte, the carry
\* out of the first byte being lost
RECURSIVE Carry(_)
Carry(v) ==
  IF \A i \in 1..Len(v) : v[i] < 256 THEN v
  ELSE Carry(Bytes([i \in 1..Len(v) |->
                      (v[i] % 256) + (IF i < Len(v) THEN v[i + 1] \div 256 ELSE 0)]))

\* a + b + c on the last i bytes, c the carry into the last byte
AddFrom(a, b, i, c) ==
  Carry(Bytes([k \in 1..i |-> a[k] + b[k] + (IF k = i THEN c ELSE 0)]))

UAdd(a, b) == AddFrom(Bytes(a), Bytes(b), Len(a), 0)
UNot(a) == Bytes([i \in 1..Len(a) |-> 255 - a[i]])
UNeg(a) == AddFrom(UNot(a), [i \in 1..Len(a) |-> 0], Len(a), 1)
USub(a, b) == AddFrom(Bytes(a), UNot(b), Len(a), 1)

RECURSIVE BitAnd(_, _)
BitAnd(x, y) ==
  IF x = 0 \/ y = 0 THEN 0
  ELSE (x % 2) * (y % 2) + 2 * BitAnd(x \div 2, y \div 2)

BitOr(x, y) == x + y - BitAnd(x, y)
BitXor(x, y) == x + y - 2 * BitAnd(x, y)

UAnd(a, b) == Bytes([i \in 1..Len(a) |-> BitAnd(a[i], b[i])])
UOr(a, b) == Bytes([i \in 1..Len(a) |-> BitOr(a[i], b[i])])
UXor(a, b) == Bytes([i \in 1..Len(a) |-> BitXor(a[i], b[i])])

ByteAt(a, j) == IF j >= 1 /\ j <= Len(a) THEN a[j] ELSE 0

\* a << k and a >> k for 0 <= k; every bit shifted out is lost
UShl(a, k) ==
  LET q == k \div 8
      r == k % 8
  IN Bytes([i \in 1..Len(a) |->
        ((ByteAt(a, i + q) * Pow2(r)) % 256) + (ByteAt(a, i + q + 1) \div Pow2(8 - r))])

UShr(a, k) ==
  LET q == k \div 8
      r == k % 8
  IN Bytes([i \in 1..Len(a) |->
        (ByteAt(a, i - q) \div Pow2(r)) + ((ByteAt(a, i - q - 1) * Pow2(8 - r)) % 256)])

\* column k of the schoolbook product a * b, for numbers of at most 8 bytes
Column(a, b, k) ==
  LET n == Len(a)
      m == Len(b) - (n - k)
  IN ByteAt(a, n) * ByteAt(b, m) + ByteAt(a, n - 1) * ByteAt(b, m + 1) +
     ByteAt(a, n - 2) * ByteAt(b, m + 2) + ByteAt(a, n - 3) * ByteAt(b, m + 3) +
     ByteAt(a, n - 4) * ByteAt(b, m + 4) + ByteAt(a, n - 5) * ByteAt(b, m + 5) +
     ByteAt(a, n - 6) * ByteAt(b, m + 6) + ByteAt(a, n - 7) * ByteAt(b, m + 7)

UMul(a, b) == Carry(Bytes([k \in 1..Len(a) |-> Column(a, b, k)]))

UGeq(a, b) ==
  LET d == {i \in 1..Len(a) : a[i] # b[i]}
  IN d = {} \/ (LET m == CHOOSE i \in d : \A j \in d : i <= j IN a[m] > b[m])

ULeq(a, b) == UGeq(b, a)

GetBit(a, i) == (a[Len(a) - (i \div 8)] \div Pow2(i % 8)) % 2
SetBit(a, i) == [a EXCEPT ![Len(a) - (i \div 8)] = @ + Pow2(i % 8)]

\* restoring division, bit i of the quotient from the top; b is not zero
RECURSIVE DivStep(_, _, _, _, _)
DivStep(a, b, i, q, r) ==
  IF i < 0 THEN q
  ELSE LET r1 == LET sh == UShl(r, 1)
                 IN [sh EXCEPT ![Len(sh)] = @ + GetBit(a, i)]
       IN IF UGeq(r1, b)
          THEN DivStep(a, b, i - 1, SetBit(q, i), USub(r1, b))
          ELSE DivStep(a, b, i - 1, q, r1)

\* the highest bit of a that is set, -1 when a is zero
HighBit(a) ==
  LET set == {i \in 0..(8 * Len(a) - 1) : GetBit(a, i) = 1}
  IN IF set = {} THEN -1 ELSE CHOOSE i \in set : \A j \in set : j <= i

\* the bits of the quotient above the highest bit of a are zero
UDiv(a, b) ==
  DivStep(a, b, HighBit(a), [i \in 1..Len(a) |-> 0], [i \in 1..Len(a) |-> 0])

(***************************************************************************)
(* Characters                                                              *)
(***************************************************************************)
NUL == ""
CharAt(s, i) == SubSeq(s, i + 1, i + 1)
\* std::string_view::substr(begin, len), clipped to the end of the string
Substr(s, begin, len) ==
  SubSeq(s, begin + 1, IF begin + len > Len(s) THEN Len(s) ELSE begin + len)

\* A back-tick cannot be written inside a TLA+ string: source texts of the model
\* write the back-tick as "!" (which the lexer would otherwise reject).
GraveChar == "!"

\* printable ASCII from code 32 on; "\t" holds the place of the back-tick
AsciiTable ==
  " !\"#$%&'()*+,-./0123456789:;<=>?@ABCDEFGHIJKLMNOPQRSTUVWXYZ[\\]^_\tabcdefghijklmnopqrstuvwxyz{|}~"
\* the character code of a character
Ord(c) ==
  CASE c = "\t" -> 9 [] c = "\n" -> 10 [] c = "\f" -> 12 [] c = "\r" -> 13
    [] c = GraveChar -> 96
    [] OTHER -> 31 + (CHOOSE i \in 1..Len(AsciiTable) : CharAt(AsciiTable, i - 1) = c)

Digit == {"0", "1", "2", "3", "4", "5", "6", "7", "8", "9"}
Lower == {"a", "b", "c", "d", "e", "f", "g", "h", "i", "j", "k", "l", "m",
          "n", "o", "p", "q", "r", "s", "t", "u", "v", "w", "x", "y", "z"}
Upper == {"A", "B", "C", "D", "E", "F", "G", "H", "I", "J", "K", "L", "M",
          "N", "O", "P", "Q", "R", "S", "T", "U", "V", "W", "X", "Y", "Z"}
Alpha == Lower \cup Upper
Alnum == Alpha \cup Digit
XDigit == Digit \cup {"a", "b", "c", "d", "e", "f", "A", "B", "C", "D", "E", "F"}
Space == {" ", "\t", "\n", "\r", "\f"}

is_octal(c) == c \in {"0", "1", "2", "3", "4", "5", "6", "7"}
is_binary(c) == c \in {"0", "1"}

\* convert_nib<T>: the value of a hexadecimal digit (c - '0' for anything else)
convert_nib(c) ==
  IF c \in {"a", "b", "c", "d", "e", "f"} THEN Ord(c) - Ord("a") + 10
  ELSE IF c \in {"A", "B", "C", "D", "E", "F"} THEN Ord(c) - Ord("A") + 10
  ELSE Ord(c) - Ord("0")

single_char_token(ch) ==
  CASE ch = "," -> "kComma"
    [] ch = "(" -> "kLparen"
    [] ch = ")" -> "kRparen"
    [] ch = "|" -> "kPipe"
    [] ch = "^" -> "kCaret"
    [] ch = "&" -> "kAmpersand"
    [] ch = "+" -> "kPlus"
    [] ch = "-" -> "kMinus"
    [] ch = "*" -> "kStar"
    [] ch = "/" -> "kSlash"
    [] ch = "~" -> "kTilde"
    [] ch = "@" -> "kAt"
    [] ch = ":" -> "kColon"
    [] ch = GraveChar -> "kGrave"
    [] ch = "." -> "kDot"
    [] ch = NUL -> "kEof"
    [] ch = "\n" -> "kEol"
    [] OTHER -> "kInvalid"

(***************************************************************************)
(* Lexer tables (AssemblerTables.cpp)                                      *)
(***************************************************************************)
sprg_map ==
  ("xer" :> 1) @@ ("lr" :> 8) @@ ("ctr" :> 9) @@ ("dsisr" :> 18) @@
  ("dar" :> 19) @@ ("dec" :> 22) @@ ("sdr1" :> 25) @@ ("srr0" :> 26) @@
  ("srr1" :> 27) @@ ("sprg0" :> 272) @@ ("sprg1" :> 273) @@ ("sprg2" :> 274) @@
  ("sprg3" :> 275) @@ ("ear" :> 282) @@ ("tbl" :> 284) @@ ("tbu" :> 285) @@
  ("ibat0u" :> 528) @@ ("ibat0l" :> 529) @@ ("ibat1u" :> 530) @@ ("ibat1l" :> 531) @@
  ("ibat2u" :> 532) @@ ("ibat2l" :> 533) @@ ("ibat3u" :> 534) @@ ("ibat3l" :> 535) @@
  ("dbat0u" :> 536) @@ ("dbat0l" :> 537) @@ ("dbat1u" :> 538) @@ ("dbat1l" :> 539) @@
  ("dbat2u" :> 540) @@ ("dbat2l" :> 541) @@ ("dbat3u" :> 542) @@ ("dbat3l" :> 543) @@
  ("gqr0" :> 912) @@ ("gqr1" :> 913) @@ ("gqr2" :> 914) @@ ("gqr3" :> 915) @@
  ("gqr4" :> 916) @@ ("gqr5" :> 917) @@ ("gqr6" :> 918) @@ ("gqr7" :> 919) @@
  ("hid2" :> 920) @@ ("wpar" :> 921) @@ ("dma_u" :> 922) @@ ("dma_l" :> 923) @@
  ("ummcr0" :> 936) @@ ("upmc1" :> 937) @@ ("upmc2" :> 938) @@ ("usia" :> 939) @@
  ("ummcr1" :> 940) @@ ("upmc3" :> 941) @@ ("upmc4" :> 942) @@ ("usda" :> 943) @@
  ("mmcr0" :> 952) @@ ("pmc1" :> 953) @@ ("pmc2" :> 954) @@ ("sia" :> 955) @@
  ("mmcr1" :> 956) @@ ("pmc3" :> 957) @@ ("pmc4" :> 958) @@ ("sda" :> 959) @@
  ("hid0" :> 1008) @@ ("hid1" :> 1009) @@ ("iabr" :> 1010) @@ ("dabr" :> 1013) @@
  ("l2cr" :> 1017) @@ ("ictc" :> 1019) @@ ("thrm1" :> 1020) @@ ("thrm2" :> 1021) @@
  ("thrm3" :> 1022)

\* a transition predicate: the characters it accepts, or (neg) those it rejects
Edge(neg, set, to) == [neg |-> neg, set |-> set, to |-> to]
EdgeMatches(e, c) == IF e.neg THEN c \notin e.set ELSE c \in e.set

DfaNode(edges, reason) == [edges |-> edges, final |-> FALSE, reason |-> reason]
DfaFinal(edges) == [edges |-> edges, final |-> TRUE, reason |-> ""]

NoNumeric == "Invalid float: No numeric value"
NoDecimal == "Invalid float: No numeric value after decimal point"
NoExponent == "Invalid float: No numeric value following exponent signifier"
NoQuote == "Invalid string: No terminating \""
BadHex == "Invalid string: bad hex escape"

\* nodes are numbered from 0 in the source and from 1 here
float_dfa ==
  LET pm(to) == Edge(FALSE, {"+", "-"}, to)
      dg(to) == Edge(FALSE, Digit, to)
      ee(to) == Edge(FALSE, {"e"}, to)
      dt(to) == Edge(FALSE, {"."}, to)
  IN << DfaNode(<<pm(2), dg(3), dt(6)>>, NoNumeric),
        DfaNode(<<dg(3), dt(6)>>, NoNumeric),
        DfaFinal(<<dg(3), dt(4)>>),
        DfaNode(<<dg(5)>>, NoDecimal),
        DfaFinal(<<dg(5), ee(8)>>),
        DfaNode(<<dg(7)>>, NoDecimal),
        DfaFinal(<<dg(7), ee(8)>>),
        DfaNode(<<dg(10), pm(9)>>, NoExponent),
        DfaNode(<<dg(10)>>, NoExponent),
        DfaFinal(<<dg(10)>>) >>

string_dfa ==
  LET Oct == {"0", "1", "2", "3", "4", "5", "6", "7"}
      Stop == {"\n", "\"", "\\"}
      normal(to) == Edge(TRUE, Stop, to)
      invalid(to) == Edge(FALSE, {"\n"}, to)
      octal(to) == Edge(FALSE, Oct, to)
      hex(to) == Edge(FALSE, XDigit, to)
      normal_minus_octal(to) == Edge(TRUE, Stop \cup Oct, to)
      normal_minus_hex(to) == Edge(TRUE, Stop \cup XDigit, to)
      escape(to) == Edge(FALSE, {"\\"}, to)
      sce(to) == Edge(TRUE, Oct \cup {"x", "\n"}, to)
      hexstart(to) == Edge(FALSE, {"x"}, to)
      quote(to) == Edge(FALSE, {"\""}, to)
  IN << DfaNode(<<normal(1), invalid(2), quote(3), escape(4)>>, NoQuote),
        DfaNode(<<>>, NoQuote),
        DfaFinal(<<>>),
        DfaNode(<<sce(1), invalid(2), octal(5), hexstart(7)>>, NoQuote),
        DfaNode(<<normal_minus_octal(1), invalid(2), quote(3), escape(4), octal(6)>>, NoQuote),
        DfaNode(<<normal(1), invalid(2), quote(3), escape(4)>>, NoQuote),
        DfaNode(<<hex(8)>>, BadHex),
        DfaNode(<<normal_minus_hex(1), invalid(2), quote(3), escape(4), hex(8)>>, NoQuote) >>

(***************************************************************************)
(* Lexer (GekkoLexer.h, GekkoLexer.cpp).  A lexer value L is the record of *)
(* the class members lex_string, pos, scan_pos, lexed_tokens, match_rule.  *)
(* The field stalled is an observation: it is set once a token was lexed   *)
(* from a position before the end of lex_string without moving pos forward.*)
(***************************************************************************)
CursorPosition(index, line, col) == [index |-> index, line |-> line, col |-> col]
Interval(begin, len) == [begin |-> begin, len |-> len]
AssemblerToken(tp, val, reason, region) ==
  [token_type |-> tp, token_val |-> val, invalid_reason |-> reason, invalid_region |-> region]
Tagged(tag, val) == [tag |-> tag, val |-> val]

Lexer(str) ==
  [lex_string |-> str, pos |-> CursorPosition(0, 0, 0), scan_pos |-> CursorPosition(0, 0, 0),
   lexed_tokens |-> <<>>, match_rule |-> "kTypical", stalled |-> FALSE]

Peek(L) ==
  IF L.scan_pos.index >= Len(L.lex_string) THEN NUL
  ELSE CharAt(L.lex_string, L.scan_pos.index)

Step(L) ==
  IF L.scan_pos.index >= Len(L.lex_string) THEN L
  ELSE IF Peek(L) = "\n"
       THEN [L EXCEPT !.scan_pos = CursorPosition(@.index + 1, @.line + 1, 0)]
       ELSE [L EXCEPT !.scan_pos = CursorPosition(@.index + 1, @.line, @.col + 1)]

\* for (char c = Peek(); c in chars; c = Step().Peek());
RECURSIVE StepWhile(_, _)
StepWhile(L, chars) == IF Peek(L) \in chars THEN StepWhile(Step(L), chars) ELSE L

ScanStart(L) == [L EXCEPT !.scan_pos = L.pos]
ScanFinish(L) == [L EXCEPT !.pos = L.scan_pos]
ScanFinishOut(L) ==
  [lx |-> [L EXCEPT !.pos = L.scan_pos],
   out |-> Substr(L.lex_string, L.pos.index, L.scan_pos.index - L.pos.index)]

SkipWs(L) == ScanFinish(StepWhile(ScanStart(L), Space \ {"\n"}))

FeedbackTokens(L) ==
  IF L.lexed_tokens = <<>> THEN L
  ELSE [L EXCEPT !.pos = L.lexed_tokens[1].tag, !.scan_pos = L.lexed_tokens[1].tag,
                 !.lexed_tokens = <<>>]

\* a rule change that keeps the tokens lexed under the old rule
SetIdentifierMatchRuleKeep(L, set) == [L EXCEPT !.match_rule = set]
SetIdentifierMatchRule(L, set) == [FeedbackTokens(L) EXCEPT !.match_rule = set]

IdentifierHeadExtra(L, h) ==
  CASE L.match_rule \in {"kTypical", "kMnemonic"} -> FALSE
    [] L.match_rule = "kDirective" -> h \in Digit

IdentifierExtraChars(L) ==
  CASE L.match_rule \in {"kTypical", "kDirective"} -> {}
    [] L.match_rule = "kMnemonic" -> {"+", "-", "."}

\* the DFA walk; returns the lexer and the node reached
RECURSIVE DfaWalk(_, _, _)
DfaWalk(L, dfa, node) ==
  IF Peek(L) = NUL THEN [lx |-> L, node |-> node]
  ELSE LET hits == {k \in 1..Len(dfa[node].edges) : EdgeMatches(dfa[node].edges[k], Peek(L))}
       IN IF hits = {} THEN [lx |-> L, node |-> node]
          ELSE LET first == CHOOSE k \in hits : \A j \in hits : k <= j
               IN DfaWalk(Step(L), dfa, dfa[node].edges[first].to)

\* RunDfa: failed is FALSE when the walk stopped in a final node
RunDfa(L, dfa) ==
  LET w == DfaWalk(L, dfa, 1)
  IN [lx |-> w.lx, failed |-> ~dfa[w.node].final, reason |-> dfa[w.node].reason]

LexStringLit(L) ==
  LET string_start == L.scan_pos.index - 1
      r == RunDfa(L, string_dfa)
  IN IF r.failed
     THEN [lx |-> r.lx, token_type |-> "kInvalid", invalid_reason |-> r.reason,
           invalid_region |-> Interval(0, r.lx.scan_pos.index - string_start)]
     ELSE [lx |-> r.lx, token_type |-> "kStringLit", invalid_reason |-> "",
           invalid_region |-> Interval(0, 0)]

valid_regnum(rn) ==
  IF Len(rn) = 1 /\ CharAt(rn, 0) \in Digit THEN TRUE
  ELSE IF Len(rn) = 2 /\ CharAt(rn, 0) \in Digit /\ CharAt(rn, 1) \in Digit
       THEN IF CharAt(rn, 0) \in {"1", "2"} THEN TRUE
            ELSE IF CharAt(rn, 0) = "3" THEN CharAt(rn, 1) \in {"0", "1", "2"}
            ELSE FALSE
       ELSE FALSE

ClassifyAlnum(L) ==
  LET alnum == Substr(L.lex_string, L.pos.index, L.scan_pos.index - L.pos.index)
  IN IF CharAt(alnum, 0) = "r" /\ valid_regnum(Substr(alnum, 1, Len(alnum))) THEN "kGPR"
     ELSE IF CharAt(alnum, 0) = "f" /\ valid_regnum(Substr(alnum, 1, Len(alnum))) THEN "kFPR"
     ELSE IF Len(alnum) = 3 /\ Substr(alnum, 0, 2) = "cr" /\ is_octal(CharAt(alnum, 2))
          THEN "kCRField"
     ELSE IF alnum = "lt" THEN "kLt"
     ELSE IF alnum = "gt" THEN "kGt"
     ELSE IF alnum = "eq" THEN "kEq"
     ELSE IF alnum = "so" THEN "kSo"
     ELSE IF alnum \in DOMAIN sprg_map THEN "kSPR"
     ELSE "kIdentifier"

\* the part of LexSingle between the two SkipWs calls: scans one token from L.pos
ScanToken(L0) ==
  LET h == Peek(L0)
      L == Step(L0)
      plain(lx, tp) == [lx |-> lx, token_type |-> tp, invalid_reason |-> "",
                        invalid_region |-> Interval(0, 0)]
      bad(lx) == [lx |-> lx, token_type |-> "kInvalid",
                  invalid_reason |-> "Unrecognized character",
                  invalid_region |-> Interval(0, 1)]
  IN IF h \in Alpha \/ h = "_" \/ IdentifierHeadExtra(L, h)
     THEN LET L1 == StepWhile(L, Alnum \cup {"_"} \cup IdentifierExtraChars(L))
          IN plain(L1, ClassifyAlnum(L1))
     ELSE IF h = "\"" THEN LexStringLit(L)
     ELSE IF h = "0"
          THEN LET imm_type == Peek(L)
               IN IF imm_type = "x" THEN plain(StepWhile(Step(L), XDigit), "kHexadecimalLit")
                  ELSE IF imm_type = "b"
                       THEN plain(StepWhile(Step(L), {"0", "1"}), "kBinaryLit")
                  ELSE IF is_octal(imm_type)
                       THEN plain(StepWhile(L, {"0", "1", "2", "3", "4", "5", "6", "7"}),
                                  "kOctalLit")
                  ELSE plain(L, "kDecimalLit")
     ELSE IF h \in Digit THEN plain(StepWhile(L, Digit), "kDecimalLit")
     ELSE IF h = "<" \/ h = ">"
          THEN IF Peek(L) = h
               THEN plain(Step(L), IF h = "<" THEN "kLsh" ELSE "kRsh")
               ELSE bad(L)
     ELSE IF single_char_token(h) = "kInvalid" THEN bad(L)
     ELSE plain(L, single_char_token(h))

\* Functions of the lexer, of the parser and of the plugin are called by name:
\* Call(fn, x, a, b) is fn(x, a, b), defined once all of them are.  No stands
\* for an argument the callee does not have.
RECURSIVE Call(_, _, _, _)
No == <<>>

\* the observation of a token lexed from the lexer L that left the lexer R
Observe(L, R) ==
  [R EXCEPT !.stalled = @ \/ (L.pos.index < Len(L.lex_string) /\ R.pos.index <= L.pos.index)]

LexSingle(L) ==
  LET t == ScanToken(ScanStart(SkipWs(L)))
      f == ScanFinishOut(t.lx)
  IN [lx |-> Observe(L, SkipWs(f.lx)),
      tok |-> AssemblerToken(t.token_type, f.out, t.invalid_reason, t.invalid_region)]

\* Lookahead / LookaheadRef: lex one token into the buffer when it is empty
Lookahead(L) ==
  IF L.lexed_tokens = <<>>
  THEN LET r == Call("LexSingle", L, No, No)
       IN [lx |-> [r.lx EXCEPT !.lexed_tokens = <<Tagged(L.pos, r.tok)>>], tok |-> r.tok]
  ELSE [lx |-> L, tok |-> L.lexed_tokens[1].val]

\* LookaheadN<N>: the first n buffered tokens, lexing the missing ones
RECURSIVE FillTokens(_, _)
FillTokens(L, n) ==
  IF Len(L.lexed_tokens) >= n THEN L
  ELSE LET r == Call("LexSingle", L, No, No)
       IN FillTokens([r.lx EXCEPT !.lexed_tokens = Append(L.lexed_tokens, Tagged(L.pos, r.tok))], n)

LookaheadN(L, n) ==
  LET F == FillTokens(L, n)
  IN [lx |-> F, toks |-> [i \in 1..n |-> F.lexed_tokens[i].val]]

LookaheadFloat(L) ==
  LET L1 == SkipWs(FeedbackTokens(L))
      pos_pre == L1.pos
      r == RunDfa(ScanStart(L1), float_dfa)
      L2 == IF r.lx.scan_pos.index = pos_pre.index THEN Step(r.lx) ELSE r.lx
      f == ScanFinishOut(L2)
      tok == IF ~r.failed
             THEN AssemblerToken("kFloatLit", f.out, "", Interval(0, 0))
             ELSE AssemblerToken("kInvalid", f.out, r.reason, Interval(0, Len(f.out)))
  IN [lx |-> [Observe(L, f.lx) EXCEPT !.lexed_tokens = Append(@, Tagged(pos_pre, tok))],
      tok |-> tok]

Eat(L) ==
  IF L.lexed_tokens = <<>> THEN Call("LexSingle", L, No, No).lx
  ELSE [L EXCEPT !.lexed_tokens = Tail(@)]

RECURSIVE EatN(_, _)
EatN(L, n) == IF n = 0 THEN L ELSE EatN(Eat(L), n - 1)

EatAndReset(L) == SetIdentifierMatchRule(Eat(L), "kTypical")

LineNumber(L) == IF L.lexed_tokens = <<>> THEN L.pos.line ELSE L.lexed_tokens[1].tag.line
ColNumber(L) == IF L.lexed_tokens = <<>> THEN L.pos.col ELSE L.lexed_tokens[1].tag.col

\* begin_index after the backward loop of CurrentLine started at b
RECURSIVE LineBegin(_, _)
LineBegin(s, b) ==
  IF b > 0 THEN (IF CharAt(s, b) = "\n" THEN b + 1 ELSE LineBegin(s, b - 1)) ELSE b

RECURSIVE LineEnd(_, _)
LineEnd(s, e) ==
  IF e < Len(s) THEN (IF CharAt(s, e) = "\n" THEN e + 1 ELSE LineEnd(s, e + 1)) ELSE e

CurrentLine(L) ==
  LET line_index == IF L.lexed_tokens = <<>> THEN L.pos.index ELSE L.lexed_tokens[1].tag.index
      begin_index == LineBegin(L.lex_string, IF line_index = 0 THEN 0 ELSE line_index - 1)
      end_index == LineEnd(L.lex_string, begin_index)
  IN Substr(L.lex_string, begin_index, end_index - begin_index)

(***************************************************************************)
(* Token evaluation (GekkoLexer.cpp)                                       *)
(***************************************************************************)
\* std::accumulate over the characters of val from index `from` on
RECURSIVE Accumulate(_, _, _, _, _)
Accumulate(val, from, n, acc, step) ==
  IF from >= Len(val) THEN acc
  ELSE LET c == CharAt(val, from)
           nxt == CASE step = "hex" -> UOr(UShl(acc, 4), FromNat(n, convert_nib(c)))
                    [] step = "dec" -> UAdd(UMul(acc, FromNat(n, 10)), FromNat(n, Ord(c) - Ord("0")))
                    [] step = "oct" -> UOr(UShl(acc, 3), FromNat(n, Ord(c) - Ord("0")))
                    [] step = "bin" -> UOr(UShl(acc, 1), FromNat(n, Ord(c) - Ord("0")))
       IN IF Len(nxt) = n THEN Accumulate(val, from + 1, n, nxt, step) ELSE nxt

\* eval_integral<T> for the unsigned type of n bytes; has_value is FALSE for nullopt
eval_integral(n, tp, val) ==
  LET some(v) == [has_value |-> TRUE, value |-> v]
      zero == FromNat(n, 0)
  IN CASE tp = "kHexadecimalLit" -> some(Accumulate(val, 2, n, zero, "hex"))
       [] tp = "kDecimalLit" -> some(Accumulate(val, 0, n, zero, "dec"))
       [] tp = "kOctalLit" -> some(Accumulate(val, 1, n, zero, "oct"))
       [] tp = "kBinaryLit" -> some(Accumulate(val, 0, n, zero, "bin"))
       [] tp \in {"kGPR", "kFPR"} -> some(Accumulate(val, 1, n, zero, "dec"))
       [] tp = "kCRField" -> some(Accumulate(val, 2, n, zero, "dec"))
       [] tp = "kSPR" -> some(FromNat(n, sprg_map[val]))
       [] tp = "kLt" -> some(FromNat(n, 0))
       [] tp = "kGt" -> some(FromNat(n, 1))
       [] tp = "kEq" -> some(FromNat(n, 2))
       [] tp = "kSo" -> some(FromNat(n, 3))
       [] OTHER -> [has_value |-> FALSE, value |-> zero]

\* The result of std::stof / std::stod on a float lexeme is kept symbolic: byte i
\* of the IEEE-754 image of the literal, most significant byte first.
FloatImage(lexeme, n) == [i \in 1..n |-> <<"ieee", n, lexeme, i>>]

\* AssemblerToken::EvalToken<T>; tname is the element type of the stack
TypeWidth(tname) ==
  CASE tname = "u8" -> 1 [] tname = "u16" -> 2 [] tname = "u32" -> 4
    [] tname = "u64" -> 8 [] tname = "float" -> 4 [] tname = "double" -> 8

EvalToken(tok, tname) ==
  IF tname \in {"float", "double"}
  THEN IF tok.token_type = "kFloatLit"
       THEN [has_value |-> TRUE, value |-> FloatImage(tok.token_val, TypeWidth(tname))]
       ELSE [has_value |-> FALSE, value |-> <<>>]
  ELSE eval_integral(TypeWidth(tname), tok.token_type, tok.token_val)

(***************************************************************************)
(* Parse state and IR (GekkoParser.h, GekkoIRGen.h, GekkoIRGen.cpp).       *)
(* A state st is the record of the members of ParseState and of the        *)
(* GekkoIRPlugin it owns (with its GekkoIR output), followed by            *)
(* observation fields that no handler reads:                               *)
(*   ncall       callouts issued so far                                    *)
(*   fault_at    the callout at which the plugin under test raises an      *)
(*               error of its own (0: the plain GekkoIRPlugin)             *)
(*   late        tokens consumed and callouts issued while error was set   *)
(*   first_error the first error assigned, err_lexeme the lexeme it is at  *)
(*   fixup_log   one entry per evaluated operand fixup                     *)
(*   ha_log      one entry per @ha evaluated in a directive expression     *)
(*   id_log      one entry per identifier met in a directive expression    *)
(*   paren_log   one entry per parenthesis closed                          *)
(*   postfix     the operators and the terminals called out, in order      *)
(***************************************************************************)
TokenTypeToStr(tp) ==
  CASE tp = "kGPR" -> "GPR" [] tp = "kFPR" -> "FPR" [] tp = "kSPR" -> "SPR"
    [] tp = "kCRField" -> "CR Field"
    [] tp \in {"kLt", "kGt", "kEq", "kSo"} -> "CR Bit"
    [] tp = "kIdentifier" -> "Identifier" [] tp = "kStringLit" -> "String Literal"
    [] tp = "kDecimalLit" -> "Decimal Literal" [] tp = "kBinaryLit" -> "Binary Literal"
    [] tp = "kHexadecimalLit" -> "Hexadecimal Literal" [] tp = "kOctalLit" -> "Octal Literal"
    [] tp = "kFloatLit" -> "Float Literal" [] tp = "kInvalid" -> "Invalid"
    [] tp = "kLsh" -> "<<" [] tp = "kRsh" -> ">>" [] tp = "kComma" -> ","
    [] tp = "kLparen" -> "(" [] tp = "kRparen" -> ")" [] tp = "kPipe" -> "|"
    [] tp = "kCaret" -> "^" [] tp = "kAmpersand" -> "&" [] tp = "kPlus" -> "+"
    [] tp = "kMinus" -> "-" [] tp = "kStar" -> "*" [] tp = "kSlash" -> "/"
    [] tp = "kTilde" -> "~" [] tp = "kAt" -> "@" [] tp = "kColon" -> ":"
    [] tp = "kGrave" -> GraveChar [] tp = "kDot" -> "."
    [] tp = "kEof" -> "End of File" [] tp = "kEol" -> "End of Line"
    [] OTHER -> ""

ValStr(tok) ==
  CASE tok.token_type = "kEol" -> "<EOL>"
    [] tok.token_type = "kEof" -> "<EOF>"
    [] OTHER -> tok.token_val

\* std::optional<AssemblerError>: has_value is FALSE for std::nullopt
NoError ==
  [has_value |-> FALSE, message |-> "", source_line |-> "", line |-> 0, col |-> 0, len |-> 0]
AssemblerError(message, source_line, line, col, len) ==
  [has_value |-> TRUE, message |-> message, source_line |-> source_line,
   line |-> line, col |-> col, len |-> len]

EmptyMap == [k \in {} |-> <<>>]
Put(m, k, v) == (k :> v) @@ m

IRBlock(address) == [block_address |-> address, chunks |-> <<>>]
InstChunk(insts) == [kind |-> "InstChunk", insts |-> insts]
ByteChunk(bytes) == [kind |-> "ByteChunk", bytes |-> bytes]
PadChunk(size) == [kind |-> "PadChunk", size |-> size]
EmptyChunk(kind) ==
  CASE kind = "InstChunk" -> InstChunk(<<>>)
    [] kind = "ByteChunk" -> ByteChunk(<<>>)
    [] kind = "PadChunk" -> PadChunk(U64(0))

GekkoInstruction ==
  [mnemonic_index |-> [mnemonic |-> "", variant |-> 0], op_index |-> 0, op_count |-> 0,
   raw_text |-> "", line_number |-> 0, is_extended |-> FALSE]

\* the u32 `size` of one chunk in the lambda of BlockEndAddress
ChunkSizeUnscaled(chunk) ==
  CASE chunk.kind = "InstChunk" -> FromNat(4, Len(chunk.insts))
    [] chunk.kind = "ByteChunk" -> FromNat(4, Len(chunk.bytes))
    [] chunk.kind = "PadChunk" -> Cast(chunk.size, 4)
ChunkSize(chunk) ==
  CASE chunk.kind = "InstChunk" -> FromNat(4, Len(chunk.insts) * 4)
    [] chunk.kind = "ByteChunk" -> FromNat(4, Len(chunk.bytes))
    [] chunk.kind = "PadChunk" -> Cast(chunk.size, 4)

RECURSIVE AccumulateChunks(_, _, _)
AccumulateChunks(chunks, i, acc) ==
  IF i > Len(chunks) THEN acc
  ELSE AccumulateChunks(chunks, i + 1, UAdd(acc, ChunkSize(chunks[i])))

BlockEndAddress(block) == AccumulateChunks(block.chunks, 1, block.block_address)

\* ParseState(input_str, plugin) with plugin = GekkoIRPlugin(result, base_addr)
ParseState(input_str, base_addr, fault) ==
  [lx |-> Lexer(input_str), error |-> NoError, eof |-> FALSE,
   blocks |-> <<IRBlock(base_addr)>>, active_block |-> 1,
   build_inst |-> GekkoInstruction, active_var |-> "", operand_scan_begin |-> 0,
   labels |-> EmptyMap, constants |-> EmptyMap, symset |-> {},
   evaluation_mode |-> "", fixup_stack |-> <<>>, operand_fixups |-> <<>>,
   operand_str_start |-> 0, eval_stack |-> [type |-> "u8", vec |-> <<>>],
   string_lit |-> "", active_directive |-> "", operand_pool |-> <<>>,
   owner_error |-> NoError,
   ncall |-> 0, fault_at |-> fault, late |-> <<>>, first_error |-> NoError,
   err_lexeme |-> "", fixup_log |-> <<>>, ha_log |-> <<>>, id_log |-> <<>>,
   paren_log |-> <<>>, postfix |-> <<>>,
   plugin |-> "GekkoIRPlugin", paren_stack |-> <<>>, matched_parens |-> <<>>,
   formatting |-> <<>>, format_log |-> <<>>]

CurrentAddress(st) == BlockEndAddress(st.blocks[st.active_block])
LookupVar(st, var) == IF var \in DOMAIN st.constants THEN <<st.constants[var]>> ELSE <<>>
LookupLabel(st, lab) == IF lab \in DOMAIN st.labels THEN <<st.labels[lab]>> ELSE <<>>

\* the lexer with its token buffer filled, and the token at its front
WithLookahead(st) == [st EXCEPT !.lx = Call("Lookahead", @, No, No).lx]
Front(st) == st.lx.lexed_tokens[1].val
HasToken(st, tp) == Front(WithLookahead(st)).token_type = tp

\* owner->error = err (the observation fields keep the first one)
SetError(st, err, lexeme) ==
  [st EXCEPT !.error = err,
             !.first_error = IF @.has_value THEN @ ELSE err,
             !.err_lexeme = IF st.first_error.has_value THEN @ ELSE lexeme]

EmitErrorHere(st, message) ==
  LET s == WithLookahead(st)
      cur_token == Front(s)
      L == s.lx
  IN IF cur_token.token_type = "kInvalid"
     THEN SetError(s, AssemblerError(cur_token.invalid_reason, CurrentLine(L), LineNumber(L),
                                     ColNumber(L) + cur_token.invalid_region.begin,
                                     cur_token.invalid_region.len),
                   Substr(cur_token.token_val, cur_token.invalid_region.begin,
                          cur_token.invalid_region.len))
     ELSE SetError(s, AssemblerError(message, CurrentLine(L), LineNumber(L), ColNumber(L),
                                     Len(cur_token.token_val)),
                   cur_token.token_val)

\* a token is consumed / a callout is issued: both are observed
Consume(st, n) ==
  [st EXCEPT !.lx = Call("EatN", @, n, No),
             !.late = IF st.error.has_value THEN Append(@, "Eat") ELSE @]
Issue(st, callout) ==
  [st EXCEPT !.ncall = @ + 1,
             !.late = IF st.error.has_value /\ callout # "OnError" THEN Append(@, callout) ELSE @]
\* the plugin under test raises its own error in callout number fault_at
Raise(st) ==
  IF st.ncall = st.fault_at /\ ~st.error.has_value
  THEN EmitErrorHere(st, "plugin error") ELSE st

(***************************************************************************)
(* GekkoIRPlugin helper functions (GekkoIRGen.cpp)                         *)
(***************************************************************************)
\* a lookup that opens a chunk for every request
GetChunkNew(st, kind) ==
  [st EXCEPT !.blocks[st.active_block].chunks = Append(@, EmptyChunk(kind))]
\* GetChunk<T>: afterwards the last chunk of the active block is a T
GetChunk(st, kind) ==
  LET chunks == st.blocks[st.active_block].chunks
  IN IF chunks # <<>> /\ chunks[Len(chunks)].kind = kind THEN st
     ELSE [st EXCEPT !.blocks[st.active_block].chunks = Append(@, EmptyChunk(kind))]

\* AddBytes<T>: most significant byte first; a float or double is bit_cast
AddBytes(st, val, tname) ==
  LET s == GetChunk(st, "ByteChunk")
      n == Len(val)
      out == IF tname \in {"float", "double"} THEN val
             ELSE [i \in 1..n |-> UAnd(UShr(val, 8 * (n - i)), FromNat(n, 255))[n]]
  IN [s EXCEPT !.blocks[s.active_block].chunks[Len(s.blocks[s.active_block].chunks)].bytes =
                 @ \o out]

RECURSIVE AddAllBytes(_, _, _)
AddAllBytes(st, vec, i) ==
  IF i > Len(vec) THEN st ELSE AddAllBytes(AddBytes(st, vec[i], st.eval_stack.type), vec, i + 1)

\* the loops of the octal and hexadecimal escapes: the byte and the next index
RECURSIVE EscapeDigits(_, _, _, _, _)
EscapeDigits(literal, i, acc, digits, shift) ==
  IF CharAt(literal, i) \in digits
  THEN EscapeDigits(literal, i + 1,
                    (acc * Pow2(shift) + convert_nib(CharAt(literal, i))) % 256, digits, shift)
  ELSE [byte |-> acc, next |-> i]

simple_escape(c) ==
  CASE c = "'" -> 39 [] c = "\"" -> 34 [] c = "?" -> 63 [] c = "\\" -> 92
    [] c = "a" -> 7 [] c = "b" -> 8 [] c = "f" -> 12 [] c = "n" -> 10
    [] c = "r" -> 13 [] c = "t" -> 9 [] c = "v" -> 11 [] OTHER -> Ord(c)

RECURSIVE ConvertStringLiteral(_, _, _)
ConvertStringLiteral(literal, i, out) ==
  IF i >= Len(literal) - 1 THEN out
  ELSE IF CharAt(literal, i) = "\\"
       THEN LET c == CharAt(literal, i + 1)
            IN IF is_octal(c)
               THEN LET e == EscapeDigits(literal, i + 1, 0, {"0", "1", "2", "3", "4", "5", "6", "7"}, 3)
                    IN ConvertStringLiteral(literal, e.next, Append(out, e.byte))
               ELSE IF c = "x"
                    THEN LET e == EscapeDigits(literal, i + 2, 0, XDigit, 4)
                         IN ConvertStringLiteral(literal, e.next, Append(out, e.byte))
                    ELSE ConvertStringLiteral(literal, i + 2, Append(out, simple_escape(c)))
       ELSE ConvertStringLiteral(literal, i + 1, Append(out, Ord(CharAt(literal, i))))

AddStringBytes(st, str, null_term) ==
  LET s == GetChunk(st, "ByteChunk")
      n == Len(s.blocks[s.active_block].chunks)
      old == s.blocks[s.active_block].chunks[n].bytes
      new == ConvertStringLiteral(str, 1, old)
  IN [s EXCEPT !.blocks[s.active_block].chunks[n].bytes =
                 IF null_term THEN Append(new, 0) ELSE new]

\* (1 << bits) as a u32; bits stays below 31 in every input of the model
AlignOf(bits) == UShl(U32(1), SmallNat(bits))

PadAlign(st, bits) ==
  LET align_mask == USub(AlignOf(bits), U32(1))
      current_addr == BlockEndAddress(st.blocks[st.active_block])
      low == UAnd(current_addr, align_mask)
  IN IF ~IsZero(low)
     THEN LET s == GetChunk(st, "PadChunk")
          IN [s EXCEPT !.blocks[s.active_block].chunks[Len(s.blocks[s.active_block].chunks)].size =
                         UAdd(@, Cast(USub(AlignOf(bits), low), 8))]
     ELSE st

PadSpace(st, space) ==
  LET s == GetChunk(st, "PadChunk")
  IN [s EXCEPT !.blocks[s.active_block].chunks[Len(s.blocks[s.active_block].chunks)].size =
                 UAdd(@, Cast(space, 8))]

StartBlock(st, address) ==
  [st EXCEPT !.blocks = Append(@, IRBlock(address)), !.active_block = Len(st.blocks) + 1]

StartBlockAlign(st, bits) ==
  LET align_mask == USub(AlignOf(bits), U32(1))
      current_addr == BlockEndAddress(st.blocks[st.active_block])
  IN IF ~IsZero(UAnd(current_addr, align_mask))
     THEN StartBlock(st, UAdd(AlignOf(bits), UAnd(current_addr, UNot(align_mask))))
     ELSE st

\* StartInstruction with every range of operands begun at the head of the pool
StartInstructionAtHead(st, mnemonic_index, extended) ==
  [st EXCEPT !.build_inst = [GekkoInstruction EXCEPT !.mnemonic_index = mnemonic_index,
                                                     !.raw_text = CurrentLine(st.lx),
                                                     !.line_number = LineNumber(st.lx),
                                                     !.is_extended = extended],
             !.operand_scan_begin = 0]

StartInstruction(st, mnemonic_index, extended) ==
  [st EXCEPT !.build_inst = [GekkoInstruction EXCEPT !.mnemonic_index = mnemonic_index,
                                                     !.raw_text = CurrentLine(st.lx),
                                                     !.line_number = LineNumber(st.lx),
                                                     !.is_extended = extended],
             !.operand_scan_begin = Len(st.operand_pool)]

FinishInstruction(st) ==
  LET inst == [st.build_inst EXCEPT !.op_index = st.operand_scan_begin,
                                    !.op_count = Len(st.operand_pool) - st.operand_scan_begin]
      s == GetChunk([st EXCEPT !.build_inst = inst], "InstChunk")
  IN [s EXCEPT !.blocks[s.active_block].chunks[Len(s.blocks[s.active_block].chunks)].insts =
                 Append(@, inst),
               !.operand_scan_begin = 0]

(***************************************************************************)
(* Operand fixups.  A std::function<u32()> closure is the record of what   *)
(* it captured:                                                            *)
(*   lit   AddLiteral            (ref, at: the label the literal was       *)
(*                                looked up from and the address of the    *)
(*                                instruction; observation only)           *)
(*   sym   AddSymbolResolve      un / bin   Add{Unary,Binary}Evaluator     *)
(*   conv  AddAbsoluteAddressConv                                          *)
(***************************************************************************)
Push(stack, f) == Append(stack, f)
Top(stack) == stack[Len(stack)]
Pop(stack) == SubSeq(stack, 1, Len(stack) - 1)

AddBinaryEvaluator(st, evaluator) ==
  LET rhs == Top(st.fixup_stack)
      lhs == Top(Pop(st.fixup_stack))
  IN [st EXCEPT !.fixup_stack =
        Push(Pop(Pop(@)), [k |-> "bin", f |-> evaluator, lhs |-> lhs, rhs |-> rhs])]

AddUnaryEvaluator(st, evaluator) ==
  [st EXCEPT !.fixup_stack = Push(Pop(@), [k |-> "un", f |-> evaluator, sub |-> Top(@)])]

AddAbsoluteAddressConv(st) ==
  [st EXCEPT !.fixup_stack =
     Push(Pop(@), [k |-> "conv", inst_address |-> CurrentAddress(st), sub |-> Top(@)])]

AddLiteral(st, lit) ==
  [st EXCEPT !.fixup_stack = Push(@, [k |-> "lit", val |-> lit, ref |-> "", at |-> <<>>])]

AddSymbolResolve(st, sym, absolute) ==
  [st EXCEPT !.fixup_stack =
     Push(@, [k |-> "sym", sym |-> sym, absolute |-> absolute,
              source_address |-> CurrentAddress(st),
              err_on_fail |-> AssemblerError("Unresolved symbol '" \o sym \o "'",
                                             CurrentLine(st.lx), LineNumber(st.lx),
                                             ColNumber(st.lx), Len(sym))])]

SaveOperandFixup(st, str_left, str_right) ==
  [st EXCEPT !.operand_fixups = Append(@, Top(st.fixup_stack)),
             !.fixup_stack = Pop(@),
             !.operand_pool = Append(@, Tagged(Interval(str_left, str_right - str_left), U32(0)))]

\* the u32 operators of EvalOperatorRel and the operators of EvalOperatorAbs on
\* the element type of the stack; shift counts stay below the operand width and
\* divisors are not zero in every input of the model
ApplyBinary(op, lhs, rhs) ==
  CASE op = "kOr" -> UOr(lhs, rhs)
    [] op = "kXor" -> UXor(lhs, rhs)
    [] op = "kAnd" -> UAnd(lhs, rhs)
    [] op = "kLsh" -> UShl(lhs, SmallNat(rhs))
    [] op = "kRsh" -> UShr(lhs, SmallNat(rhs))
    [] op = "kAdd" -> UAdd(lhs, rhs)
    [] op = "kSub" -> USub(lhs, rhs)
    [] op = "kMul" -> UMul(lhs, rhs)
    [] op = "kDiv" -> UDiv(lhs, rhs)
ApplyUnary(op, val) ==
  CASE op = "kNeg" -> UNeg(val)
    [] op = "kNot" -> UNot(val)

\* Calling a closure: the value, the error left in owner->error (the last one
\* assigned) and the first one assigned with the symbol it names.  The two
\* operands of evaluator(lhs(), rhs()) are evaluated in either order.
RECURSIVE CallFixup(_, _, _)
CallFixup(f, st, order) ==
  CASE f.k = "lit" -> [val |-> f.val, err |-> NoError, first |-> NoError, sym |-> ""]
    [] f.k = "sym" ->
         IF f.sym \in DOMAIN st.labels
         THEN [val |-> IF f.absolute THEN st.labels[f.sym]
                       ELSE USub(st.labels[f.sym], f.source_address),
               err |-> NoError, first |-> NoError, sym |-> ""]
         ELSE IF f.sym \in DOMAIN st.constants
              THEN [val |-> Cast(st.constants[f.sym], 4),
                    err |-> NoError, first |-> NoError, sym |-> ""]
              ELSE [val |-> U32(0), err |-> f.err_on_fail, first |-> f.err_on_fail,
                    sym |-> f.sym]
    [] f.k = "un" ->
         LET r == CallFixup(f.sub, st, order) IN [r EXCEPT !.val = ApplyUnary(f.f, @)]
    [] f.k = "conv" ->
         LET r == CallFixup(f.sub, st, order) IN [r EXCEPT !.val = USub(@, f.inst_address)]
    [] f.k = "bin" ->
         LET l == CallFixup(f.lhs, st, order)
             r == CallFixup(f.rhs, st, order)
             a == IF order = "lhs_first" THEN l ELSE r
             b == IF order = "lhs_first" THEN r ELSE l
         IN [val |-> ApplyBinary(f.f, l.val, r.val),
             err |-> IF b.err.has_value THEN b.err ELSE a.err,
             first |-> IF a.first.has_value THEN a.first ELSE b.first,
             sym |-> IF a.first.has_value THEN a.sym ELSE b.sym]

\* a loop that would go on to the next operand after a failed closure
RECURSIVE RunFixupsToEnd(_, _, _)
RunFixupsToEnd(st, i, order) ==
  IF i > Len(st.operand_fixups) THEN st
  ELSE LET r == CallFixup(st.operand_fixups[i], st, order)
           seen == [index |-> i, eof |-> st.eof, error |-> st.error.has_value,
                    labels |-> st.labels, constants |-> st.constants]
           s == [st EXCEPT !.operand_pool[i].val = r.val, !.fixup_log = Append(@, seen)]
       IN RunFixupsToEnd(IF r.err.has_value
                         THEN [SetError(s, r.first, r.sym) EXCEPT !.error = r.err] ELSE s,
                         i + 1, order)

RECURSIVE RunFixupsFrom(_, _, _)
RunFixupsFrom(st, i, order) ==
  IF i > Len(st.operand_fixups) THEN st
  ELSE LET r == CallFixup(st.operand_fixups[i], st, order)
           seen == [index |-> i, eof |-> st.eof, error |-> st.error.has_value,
                    labels |-> st.labels, constants |-> st.constants]
           s == [st EXCEPT !.operand_pool[i].val = r.val, !.fixup_log = Append(@, seen)]
       IN IF r.err.has_value
          THEN [SetError(s, r.first, r.sym) EXCEPT !.error = r.err]
          ELSE RunFixupsFrom(s, i + 1, order)

RunFixups(st, order) == RunFixupsFrom(st, 1, order)

(***************************************************************************)
(* Directive expressions: the width-typed evaluation stack                 *)
(***************************************************************************)
\* PushCast<T>: static_cast to the element type of the stack
PushCast(st, val) ==
  [st EXCEPT !.eval_stack.vec = Append(@, Cast(val, TypeWidth(st.eval_stack.type)))]

EvalOperatorAbs(st, operation) ==
  LET vec == st.eval_stack.vec
  IN IF operation \in {"kNeg", "kNot"}
     THEN [st EXCEPT !.eval_stack.vec[Len(vec)] = ApplyUnary(operation, @)]
     ELSE LET rhs == Top(vec)
          IN [st EXCEPT !.eval_stack.vec =
                [Pop(vec) EXCEPT ![Len(vec) - 1] = ApplyBinary(operation, @, rhs)]]

EvalOperatorRel(st, operation) ==
  IF operation \in {"kNeg", "kNot"} THEN AddUnaryEvaluator(st, operation)
  ELSE AddBinaryEvaluator(st, operation)

NumericTerminals ==
  {"kHex", "kDec", "kOct", "kBin", "kGPR", "kFPR", "kSPR", "kCRField",
   "kLt", "kGt", "kEq", "kSo"}

EvalTerminalRel(st, type, tok) ==
  CASE type \in NumericTerminals -> AddLiteral(st, Call("EvalToken", tok, "u32", No).value)
    [] type = "kDot" -> AddLiteral(st, CurrentAddress(st))
    [] type = "kId" ->
         IF tok.token_val \in DOMAIN st.labels
         THEN LET s == AddLiteral(st, st.labels[tok.token_val])
              IN [s EXCEPT !.fixup_stack[Len(s.fixup_stack)].ref = tok.token_val,
                           !.fixup_stack[Len(s.fixup_stack)].at = CurrentAddress(st)]
         ELSE IF tok.token_val \in DOMAIN st.constants
              THEN AddLiteral(st, Cast(st.constants[tok.token_val], 4))
              ELSE AddSymbolResolve(st, tok.token_val, FALSE)

\* EvalTerminalAbs visits the stack with EvalTerminalAbsGeneric<T>
EvalTerminalAbsGeneric(st, type, tok) ==
  CASE type \in NumericTerminals \cup {"kFlt"} ->
         [st EXCEPT !.eval_stack.vec = Append(@, Call("EvalToken", tok, st.eval_stack.type, No).value)]
    [] type = "kDot" -> PushCast(st, CurrentAddress(st))
    [] type = "kId" ->
         LET seen == [name |-> tok.token_val, labels |-> DOMAIN st.labels,
                      constants |-> DOMAIN st.constants, active_var |-> st.active_var]
             s == [st EXCEPT !.id_log = Append(@, seen)]
         IN IF tok.token_val \in DOMAIN st.labels THEN PushCast(s, st.labels[tok.token_val])
            ELSE IF tok.token_val \in DOMAIN st.constants
                 THEN PushCast(s, st.constants[tok.token_val])
                 ELSE EmitErrorHere(s, "Undefined reference to Label/Constant '" \o
                                       ValStr(tok) \o "'")

(***************************************************************************)
(* GekkoIRPlugin overrides (GekkoIRGen.cpp)                                *)
(***************************************************************************)
EvalStack(tname) == [type |-> tname, vec |-> <<>>]

OnDirectivePre(st, directive) ==
  [st EXCEPT !.evaluation_mode = "AbsAddrSinglePass",
             !.active_directive = directive,
             !.eval_stack =
                CASE directive = "kByte" -> EvalStack("u8")
                  [] directive = "k2byte" -> EvalStack("u16")
                  [] directive \in {"k4byte", "kLocate", "kPadAlign", "kAlign", "kZeros", "kSkip"} ->
                       EvalStack("u32")
                  [] directive \in {"k8byte", "kDefVar"} -> EvalStack("u64")
                  [] directive = "kFloat" -> EvalStack("float")
                  [] directive = "kDouble" -> EvalStack("double")
                  [] OTHER -> EvalStack("u8")]

OnDirectivePost(st, directive) ==
  LET back == Top(st.eval_stack.vec)
      s == CASE directive = "kDefVar" ->
                  [st EXCEPT !.constants[st.active_var] = back, !.active_var = ""]
             [] directive = "kLocate" -> StartBlock(st, back)
             [] directive = "kZeros" -> PadSpace(st, back)
             [] directive = "kSkip" -> StartBlock(st, UAdd(CurrentAddress(st), back))
             [] directive = "kPadAlign" -> PadAlign(st, back)
             [] directive = "kAlign" -> StartBlockAlign(st, back)
             [] directive = "kAscii" -> AddStringBytes(st, st.string_lit, FALSE)
             [] directive = "kAsciz" -> AddStringBytes(st, st.string_lit, TRUE)
             [] OTHER -> st
  IN [s EXCEPT !.eval_stack = EvalStack("u8")]

OnInstructionPre(st, mnemonic_info, extended) ==
  StartInstruction([st EXCEPT !.evaluation_mode = "RelAddrDoublePass"],
                   mnemonic_info.mnemonic_index, extended)

\* a plugin that would evaluate the fixups as soon as an instruction is complete
OnInstructionPostEager(st) == RunFixups(FinishInstruction(st), "lhs_first")
OnInstructionPost(st) == FinishInstruction(st)

OnOperandPre(st) == [st EXCEPT !.operand_str_start = ColNumber(st.lx)]
OnOperandPost(st) == SaveOperandFixup(st, st.operand_str_start, ColNumber(st.lx))

OnResolvedExprPost(st) ==
  IF st.active_directive \in {"kByte", "k2byte", "k4byte", "k8byte", "kFloat", "kDouble"}
  THEN [AddAllBytes(st, st.eval_stack.vec, 1) EXCEPT !.eval_stack.vec = <<>>]
  ELSE st

OnOperator(st, operation) ==
  IF st.evaluation_mode = "RelAddrDoublePass" THEN EvalOperatorRel(st, operation)
  ELSE EvalOperatorAbs(st, operation)

OnTerminal(st, type, val) ==
  IF type = "kStr" THEN [st EXCEPT !.string_lit = val.token_val]
  ELSE IF st.evaluation_mode = "RelAddrDoublePass" THEN EvalTerminalRel(st, type, val)
  ELSE EvalTerminalAbsGeneric(st, type, val)

\* the directive branch of OnHiaddr / OnLoaddr pushes the label, else the constant
PushSymbol(st, id) ==
  IF LookupLabel(st, id) # <<>> THEN PushCast(st, LookupLabel(st, id)[1])
  ELSE PushCast(st, LookupVar(st, id)[1])

OnHiaddr(st, id) ==
  IF st.evaluation_mode = "RelAddrDoublePass"
  THEN AddBinaryEvaluator(
         AddLiteral(
           AddBinaryEvaluator(AddLiteral(AddSymbolResolve(st, id, TRUE), U32(16)), "kRsh"),
           Hex32(0, 0, 255, 255)),
         "kAnd")
  ELSE IF LookupLabel(st, id) = <<>> /\ LookupVar(st, id) = <<>>
       THEN EmitErrorHere(st, "Undefined reference to Label/Constant '" \o id \o "'")
       ELSE LET r == EvalOperatorAbs(
                       PushCast(EvalOperatorAbs(PushCast(PushSymbol(st, id), U8(16)), "kRsh"),
                                U16(65535)),
                       "kAnd")
            IN [r EXCEPT !.ha_log = Append(@, [sym |-> id, val |-> Top(r.eval_stack.vec)])]

OnLoaddr(st, id) ==
  IF st.evaluation_mode = "RelAddrDoublePass"
  THEN AddBinaryEvaluator(AddLiteral(AddSymbolResolve(st, id, TRUE), Hex32(0, 0, 255, 255)),
                          "kAnd")
  ELSE IF LookupLabel(st, id) = <<>> /\ LookupVar(st, id) = <<>>
       THEN EmitErrorHere(st, "Undefined reference to Label/Constant '" \o id \o "'")
       ELSE EvalOperatorAbs(PushCast(PushSymbol(st, id), U16(65535)), "kAnd")

\* the expression that a parenthesis closes, before and after OnCloseParen: the
\* value on top of eval_stack, or the closure on top of fixup_stack
Enclosed(st) ==
  IF st.evaluation_mode = "RelAddrDoublePass" THEN Top(st.fixup_stack)
  ELSE Top(st.eval_stack.vec)

OnCloseParen(st, type) ==
  LET s == IF st.evaluation_mode = "RelAddrDoublePass"
           THEN IF type = "kRelConv" THEN AddAbsoluteAddressConv(st) ELSE st
           ELSE EvalOperatorAbs(PushCast(st, CurrentAddress(st)), "kSub")
  IN [s EXCEPT !.paren_log =
        Append(@, [type |-> type, mode |-> st.evaluation_mode, address |-> CurrentAddress(st),
                   inner |-> Enclosed(st), outer |-> Enclosed(s)])]

OnLabelDecl(st, name) ==
  IF name \in st.symset
  THEN EmitErrorHere(st, "Label/Constant " \o name \o " is already defined")
  ELSE [st EXCEPT !.labels = Put(@, name, BlockEndAddress(st.blocks[st.active_block])),
                  !.symset = @ \cup {name}]

\* a declaration that would not consult the set of defined names
OnVarDeclUnchecked(st, name) ==
  [st EXCEPT !.constants = Put(@, name, U64(0)), !.active_var = name,
             !.symset = @ \cup {name}]
OnVarDecl(st, name) ==
  IF name \in st.symset
  THEN EmitErrorHere(st, "Label/Constant " \o name \o " is already defined")
  ELSE [st EXCEPT !.constants = Put(@, name, U64(0)), !.active_var = name,
                  !.symset = @ \cup {name}]

PostParseAction(st, order) == RunFixups(st, order)

\* state.plugin.On...(...): the virtual call, observed, into the plugin under test
(***************************************************************************)
(* HighlightParsePlugin (GekkoSyntaxHighlight.cpp), the plugin of the      *)
(* assembler widget's editor.  formatting holds its tuples; format_log     *)
(* holds, for the entry of the same index, the line and the text of the    *)
(* token the callout was made for (observation only).                      *)
(***************************************************************************)
Emplace(st, first, second, format, lexeme) ==
  [st EXCEPT !.formatting = Append(@, <<first, second, format>>),
             !.format_log = Append(@, [line |-> LineNumber(st.lx), lexeme |-> lexeme])]

HighlightCurToken(st, format) ==
  LET len == Len(Front(st).token_val)
      off == ColNumber(st.lx)
  IN Emplace(st, off, len, format, Front(st).token_val)

HighlightLabelDecl(st, name) ==
  LET len == Len(Front(st).token_val)
      off == ColNumber(st.lx)
  IN Emplace(st, len, off, "kSymbol", name)

HighlightTerminal(st, type) ==
  CASE type = "kId" -> HighlightCurToken(st, "kSymbol")
    [] type \in {"kHex", "kDec", "kOct", "kBin", "kFlt"} -> HighlightCurToken(st, "kImmediate")
    [] type \in {"kGPR", "kFPR"} -> HighlightCurToken(st, "kGPR")
    [] type = "kSPR" -> HighlightCurToken(st, "kSPR")
    [] type = "kCRField" -> HighlightCurToken(st, "kCRField")
    [] type \in {"kLt", "kGt", "kEq", "kSo"} -> HighlightCurToken(st, "kCRFlag")
    [] type = "kStr" -> HighlightCurToken(st, "kStr")
    [] OTHER -> st

HighlightHiaddr(st) ==
  LET s == HighlightCurToken(st, "kSymbol")
      ha == s.lx.lexed_tokens[3]
  IN Emplace(s, ha.tag.col, Len(ha.val.token_val), "kHaLa", ha.val.token_val)

HighlightCloseParen(st) ==
  IF st.paren_stack = <<>> THEN st
  ELSE [st EXCEPT !.matched_parens =
                    Append(@, <<st.paren_stack[Len(st.paren_stack)], ColNumber(st.lx)>>),
                  !.paren_stack = SubSeq(@, 1, Len(@) - 1)]

HighlightParsePlugin(st, callout, a, b) ==
  CASE callout = "OnDirectivePre" -> HighlightCurToken(st, "kDirective")
    [] callout = "OnInstructionPre" -> HighlightCurToken(st, "kMnemonic")
    [] callout = "OnTerminal" -> HighlightTerminal(st, a)
    [] callout \in {"OnHiaddr", "OnLoaddr"} -> HighlightHiaddr(st)
    [] callout = "OnOpenParen" -> [st EXCEPT !.paren_stack = Append(@, ColNumber(st.lx))]
    [] callout = "OnCloseParen" -> HighlightCloseParen(st)
    [] callout = "OnError" ->
         [Emplace(st, st.error.col, st.error.len, "kError", st.err_lexeme) EXCEPT
            !.format_log[Len(st.format_log) + 1].line = st.error.line]
    [] callout \in {"OnLabelDecl", "OnVarDecl"} -> HighlightLabelDecl(st, a)
    [] OTHER -> st

Plugin(st, callout, a, b) ==
  LET s == [Issue(st, callout) EXCEPT
              !.postfix = CASE callout = "OnOperator" -> Append(@, a)
                            [] callout = "OnTerminal" -> Append(@, b.token_val)
                            [] OTHER -> @]
  IN IF st.plugin = "HighlightParsePlugin" THEN HighlightParsePlugin(s, callout, a, b)
     ELSE
     Raise(CASE callout = "OnDirectivePre" -> OnDirectivePre(s, a)
             [] callout = "OnDirectivePost" -> OnDirectivePost(s, a)
             [] callout = "OnInstructionPre" -> OnInstructionPre(s, a, b)
             [] callout = "OnInstructionPost" -> OnInstructionPost(s)
             [] callout = "OnOperandPre" -> OnOperandPre(s)
             [] callout = "OnOperandPost" -> OnOperandPost(s)
             [] callout = "OnResolvedExprPost" -> OnResolvedExprPost(s)
             [] callout = "OnOperator" -> OnOperator(s, a)
             [] callout = "OnTerminal" -> OnTerminal(s, a, b)
             [] callout = "OnHiaddr" -> OnHiaddr(s, a)
             [] callout = "OnLoaddr" -> OnLoaddr(s, a)
             [] callout = "OnCloseParen" -> OnCloseParen(s, a)
             [] callout = "OnLabelDecl" -> OnLabelDecl(s, a)
             [] callout = "OnVarDecl" -> OnVarDecl(s, a)
             [] callout = "PostParseAction" -> PostParseAction(s, a)
             [] callout \in {"OnResolvedExprPre", "OnOpenParen", "OnError"} -> s)

(***************************************************************************)
(* The recursive-descent parser (GekkoParser.cpp).  A function of the      *)
(* parser calls another one, or a callout of the plugin, by name:          *)
(* Call(fn, st, a, b) is the call fn(state, a, b) and is defined after     *)
(* the functions.                                                          *)
(***************************************************************************)
Failed(st) == st.error.has_value

ParseToken(st, tp) ==
  LET s == WithLookahead(st)
      tok == Front(s)
  IN IF tok.token_type = tp THEN Consume(s, 1)
     ELSE EmitErrorHere(s, "Expected '" \o TokenTypeToStr(tp) \o "' but found '" \o
                           ValStr(tok) \o "'")

MatchOperandFirst(tok) ==
  tok.token_type \in {"kMinus", "kTilde", "kLparen", "kGrave", "kIdentifier", "kDecimalLit",
                      "kOctalLit", "kHexadecimalLit", "kBinaryLit", "kDot"}

ParseImm(st) ==
  LET s == WithLookahead(st)
      tok == Front(s)
      terminal == CASE tok.token_type = "kHexadecimalLit" -> "kHex"
                    [] tok.token_type = "kDecimalLit" -> "kDec"
                    [] tok.token_type = "kOctalLit" -> "kOct"
                    [] tok.token_type = "kBinaryLit" -> "kBin"
                    [] OTHER -> ""
      r == Call("OnTerminal", s, terminal, tok)
  IN IF terminal = ""
     THEN EmitErrorHere(s, "Invalid " \o TokenTypeToStr(tok.token_type) \o " with value '" \o
                           ValStr(tok) \o "'")
     ELSE IF Failed(r) THEN r ELSE Consume(r, 1)

ParseId(st) ==
  LET s == WithLookahead(st)
      tok == Front(s)
      r == Call("OnTerminal", s, "kId", tok)
  IN IF tok.token_type = "kIdentifier"
     THEN IF Failed(r) THEN r ELSE Consume(r, 1)
     ELSE EmitErrorHere(s, "Expected an identifier, but found '" \o ValStr(tok) \o "'")

ParseIdLocation(st) ==
  LET la == Call("LookaheadN", st.lx, 3, No)
      s == [st EXCEPT !.lx = la.lx]
      toks == la.toks
      callout == IF toks[3].token_val = "ha" THEN "OnHiaddr" ELSE "OnLoaddr"
      r == Call(callout, s, toks[1].token_val, No)
  IN IF toks[2].token_type = "kAt" /\ toks[3].token_val \in {"ha", "l"}
     THEN IF Failed(r) THEN r ELSE Consume(r, 3)
     ELSE Call("ParseId", s, No, No)

ParsePpcBuiltin(st) ==
  LET s == WithLookahead(st)
      tok == Front(s)
      builtin == {"kGPR", "kFPR", "kSPR", "kCRField", "kLt", "kGt", "kEq", "kSo"}
      r == IF tok.token_type \in builtin
           THEN Call("OnTerminal", s, tok.token_type, tok)
           ELSE EmitErrorHere(s, "Unexpected token '" \o ValStr(tok) \o "' in ppc builtin")
  IN IF Failed(r) THEN r ELSE Consume(r, 1)

ParseBaseexpr(st) ==
  LET s == WithLookahead(st)
      tok == Front(s).token_type
      d == Call("OnTerminal", s, "kDot", Front(s))
  IN CASE tok \in {"kHexadecimalLit", "kDecimalLit", "kOctalLit", "kBinaryLit"} ->
            Call("ParseImm", s, No, No)
       [] tok = "kIdentifier" -> Call("ParseIdLocation", s, No, No)
       [] tok \in {"kGPR", "kFPR", "kSPR", "kCRField", "kLt", "kGt", "kEq", "kSo"} ->
            Call("ParsePpcBuiltin", s, No, No)
       [] tok = "kDot" -> IF Failed(d) THEN d ELSE Consume(d, 1)
       [] OTHER -> EmitErrorHere(s, "Unexpected token '" \o ValStr(Front(s)) \o
                                    "' in expression")

\* the two branches of ParseParen that open with kLparen and with kGrave; only
\* the first looks at the error after OnOpenParen
ParseParen(st) ==
  LET s == WithLookahead(st)
      tp == Front(s).token_type
      type == IF tp = "kLparen" THEN "kNormal" ELSE "kRelConv"
      close == IF tp = "kLparen" THEN "kRparen" ELSE "kGrave"
      o == Call("OnOpenParen", s, type, No)
      r == Call("ParseBitor", Consume(o, 1), No, No)
      c == IF HasToken(r, close) THEN Call("OnCloseParen", WithLookahead(r), type, No)
           ELSE WithLookahead(r)
  IN IF tp \in {"kLparen", "kGrave"}
     THEN IF tp = "kLparen" /\ Failed(o) THEN o
          ELSE IF Failed(r) THEN r ELSE Call("ParseToken", c, close, No)
     ELSE Call("ParseBaseexpr", s, No, No)

ParseUnary(st) ==
  LET s == WithLookahead(st)
      tok == Front(s).token_type
      r == Call("ParseUnary", Consume(s, 1), No, No)
  IN IF tok \in {"kMinus", "kTilde"}
     THEN IF Failed(r) THEN r
          ELSE Call("OnOperator", r, IF tok = "kMinus" THEN "kNeg" ELSE "kNot", No)
     ELSE Call("ParseParen", s, No, No)

\* a grammar in which a shift binds tighter than a sum
LevelBelowShiftFirst(level) ==
  CASE level = "ParseMultiplication" -> "ParseUnary"
    [] level = "ParseShift" -> "ParseMultiplication"
    [] level = "ParseAddition" -> "ParseShift"
    [] level = "ParseBitand" -> "ParseAddition"
    [] level = "ParseBitxor" -> "ParseBitand"
    [] level = "ParseBitor" -> "ParseBitxor"
\* The binary levels from ParseMultiplication to ParseBitor share one shape: the
\* production of their operands and the operator each of their tokens calls out.
LevelOperators(level) ==
  CASE level = "ParseMultiplication" -> [kStar |-> "kMul", kSlash |-> "kDiv"]
    [] level = "ParseAddition" -> [kPlus |-> "kAdd", kMinus |-> "kSub"]
    [] level = "ParseShift" -> [kLsh |-> "kLsh", kRsh |-> "kRsh"]
    [] level = "ParseBitand" -> [kAmpersand |-> "kAnd"]
    [] level = "ParseBitxor" -> [kCaret |-> "kXor"]
    [] level = "ParseBitor" -> [kPipe |-> "kOr"]
LevelBelow(level) ==
  CASE level = "ParseMultiplication" -> "ParseUnary"
    [] level = "ParseAddition" -> "ParseMultiplication"
    [] level = "ParseShift" -> "ParseAddition"
    [] level = "ParseBitand" -> "ParseShift"
    [] level = "ParseBitxor" -> "ParseBitand"
    [] level = "ParseBitor" -> "ParseBitxor"

\* the while loop of a binary level: the operator is called out after its right
\* operand, and the loop goes on to the next token without looking at the error
ParseLevelLoop(st, level) ==
  LET s == WithLookahead(st)
      tok == Front(s).token_type
      r == Call(LevelBelow(level), Consume(s, 1), No, No)
  IN IF tok \in DOMAIN LevelOperators(level)
     THEN IF Failed(r) THEN r
          ELSE Call("ParseLevelLoop", Call("OnOperator", r, LevelOperators(level)[tok], No),
                    level, No)
     ELSE s

\* the levels a level descends through before its own loop runs, the lowest
\* one first
RECURSIVE LevelsUpTo(_)
LevelsUpTo(level) ==
  IF level = "ParseUnary" THEN <<>> ELSE Append(LevelsUpTo(LevelBelow(level)), level)

\* the returns of the levels, from the lowest one up: a level that finds
\* the error set returns at once, any other one runs its loop
RECURSIVE ReturnThrough(_, _, _)
ReturnThrough(r, levels, i) ==
  IF i > Len(levels) \/ Failed(r) THEN r
  ELSE ReturnThrough(Call("ParseLevelLoop", r, levels[i], No), levels, i + 1)

\* A level calls the level below first, so the calls descend to ParseUnary
\* before anything is parsed; the loops then run on the way back.
ParseLevel(st, level) ==
  ReturnThrough(Call("ParseUnary", st, No, No), LevelsUpTo(level), 1)

ParseMultiplication(st) == ParseLevel(st, "ParseMultiplication")
ParseAddition(st) == ParseLevel(st, "ParseAddition")
ParseShift(st) == ParseLevel(st, "ParseShift")
ParseBitand(st) == ParseLevel(st, "ParseBitand")
ParseBitxor(st) == ParseLevel(st, "ParseBitxor")
ParseBitor(st) == ParseLevel(st, "ParseBitor")

ParseOperand(st) ==
  LET r == Call("ParseBitor", Call("OnOperandPre", st, No, No), No, No)
  IN IF Failed(r) THEN r ELSE Call("OnOperandPost", r, No, No)

\* the steps of each ParseAlg
ParseSteps(alg) ==
  CASE alg = "Op1" -> <<"_Operand">>
    [] alg = "Op1Or2" -> <<"_Operand", "_OptComma", "_Operand">>
    [] alg = "Op2Or3" -> <<"_Operand", "_Comma", "_Operand", "_OptComma", "_Operand">>
    [] alg = "Op1Off1" -> <<"_Operand", "_Comma", "_Operand", "_Lparen", "_Operand", "_Rparen">>
    [] alg = "Op2" -> <<"_Operand", "_Comma", "_Operand">>
    [] alg = "Op3" -> <<"_Operand", "_Comma", "_Operand", "_Comma", "_Operand">>
    [] alg = "Op4" -> <<"_Operand", "_Comma", "_Operand", "_Comma", "_Operand", "_Comma",
                        "_Operand">>
    [] alg = "Op5" -> <<"_Operand", "_Comma", "_Operand", "_Comma", "_Operand", "_Comma",
                        "_Operand", "_Comma", "_Operand">>
    [] alg = "Op1Off1Op2" -> <<"_Operand", "_Comma", "_Operand", "_Lparen", "_Operand",
                               "_Rparen", "_Comma", "_Operand", "_Comma", "_Operand">>

\* the for loop of ParseOperandList from step number i on
ParseStepsFrom(st, steps, i) ==
  LET step == steps[i]
      stop_parse == step = "_OptComma" /\ ~HasToken(st, "kComma")
      r == CASE step = "_Operand" -> Call("ParseOperand", st, No, No)
             [] step = "_Comma" -> Call("ParseToken", st, "kComma", No)
             [] step = "_Lparen" -> Call("ParseToken", st, "kLparen", No)
             [] step = "_Rparen" -> Call("ParseToken", st, "kRparen", No)
             [] step = "_OptComma" ->
                  IF stop_parse THEN WithLookahead(st) ELSE Call("ParseToken", st, "kComma", No)
  IN IF i > Len(steps) THEN st
     ELSE IF Failed(r) \/ stop_parse THEN r ELSE Call("ParseStepsFrom", r, steps, i + 1)

ParseOperandList(st, alg) ==
  IF alg = "None" THEN st
  ELSE IF alg = "NoneOrOp1"
       THEN IF MatchOperandFirst(Front(WithLookahead(st)))
            THEN Call("ParseOperand", WithLookahead(st), No, No)
            ELSE WithLookahead(st)
       ELSE Call("ParseStepsFrom", st, ParseSteps(alg), 1)

\* The entries of mnemonic_tokens and extended_mnemonic_tokens that the inputs of
\* the model use; the index is kept as the pair (mnemonic, variant bits).
ParseInfo(mnemonic, variant, alg) ==
  [mnemonic_index |-> [mnemonic |-> mnemonic, variant |-> variant], parse_algorithm |-> alg]
mnemonic_tokens ==
  ("addi" :> ParseInfo("kAddi", "kPlainMnemonic", "Op3")) @@
  ("b" :> ParseInfo("kB", "kPlainMnemonic", "Op1")) @@
  ("bl" :> ParseInfo("kB", "kLinkBit", "Op1")) @@
  ("lwz" :> ParseInfo("kLwz", "kPlainMnemonic", "Op1Off1")) @@
  ("ori" :> ParseInfo("kOri", "kPlainMnemonic", "Op3"))
extended_mnemonic_tokens ==
  ("cmpwi" :> ParseInfo("kCmpwi", "kPlainMnemonic", "Op2Or3")) @@
  ("blr" :> ParseInfo("kBlr", "kPlainMnemonic", "None")) @@
  ("nop" :> ParseInfo("kNop", "kPlainMnemonic", "None")) @@
  ("li" :> ParseInfo("kLi", "kPlainMnemonic", "Op2")) @@
  ("lis" :> ParseInfo("kLis", "kPlainMnemonic", "Op2"))

directives_map ==
  [byte |-> "kByte", 2byte |-> "k2byte", 4byte |-> "k4byte", 8byte |-> "k8byte",
   float |-> "kFloat", double |-> "kDouble", locate |-> "kLocate", padalign |-> "kPadAlign",
   align |-> "kAlign", zeros |-> "kZeros", skip |-> "kSkip", defvar |-> "kDefVar",
   ascii |-> "kAscii", asciz |-> "kAsciz"]

\* lexer.EatAndReset()
ConsumeAndReset(st) == [Consume(st, 1) EXCEPT !.lx = SetIdentifierMatchRule(@, "kTypical")]

ParseInstruction(st) ==
  LET s == WithLookahead([st EXCEPT !.lx = SetIdentifierMatchRule(@, "kMnemonic")])
      mnemonic_token == Front(s)
      name == mnemonic_token.token_val
      is_extended == name \notin DOMAIN mnemonic_tokens
      info == IF is_extended THEN extended_mnemonic_tokens[name] ELSE mnemonic_tokens[name]
      r == Call("ParseOperandList",
                ConsumeAndReset(Call("OnInstructionPre", s, info, is_extended)),
                info.parse_algorithm, No)
  IN IF mnemonic_token.token_type # "kIdentifier"
     THEN [s EXCEPT !.lx = SetIdentifierMatchRule(@, "kTypical")]
     ELSE IF name \notin DOMAIN mnemonic_tokens \cup DOMAIN extended_mnemonic_tokens
          THEN EmitErrorHere(s, "Unknown or unsupported mnemonic '" \o
                                ValStr(mnemonic_token) \o "'")
          ELSE IF Failed(r) THEN r ELSE Call("OnInstructionPost", r, info, is_extended)

ParseLabel(st) ==
  LET la == Call("LookaheadN", st.lx, 2, No)
      s == [st EXCEPT !.lx = la.lx]
      r == Call("OnLabelDecl", s, la.toks[1].token_val, No)
  IN IF la.toks[1].token_type = "kIdentifier" /\ la.toks[2].token_type = "kColon"
     THEN IF Failed(r) THEN r ELSE Consume(r, 2)
     ELSE s

ParseResolvedExpr(st) ==
  LET r == Call("ParseBitor", Call("OnResolvedExprPre", st, No, No), No, No)
  IN IF Failed(r) THEN r ELSE Call("OnResolvedExprPost", r, No, No)

ParseFloat(st) ==
  LET la == Call("LookaheadFloat", st.lx, No, No)
      s == [st EXCEPT !.lx = la.lx]
  IN IF la.tok.token_type # "kFloatLit"
     THEN EmitErrorHere(s, "Invalid floating point literal")
     ELSE Consume(Call("OnTerminal", s, "kFlt", la.tok), 1)

\* the loop `while (HasToken(kComma)) { Eat(); item; }` of the two list productions
ParseListTail(st, item) ==
  IF Failed(st) THEN st
  ELSE IF HasToken(st, "kComma")
       THEN Call("ParseListTail", Call(item, Consume(WithLookahead(st), 1), No, No), item, No)
       ELSE WithLookahead(st)

ParseExpressionList(st) ==
  Call("ParseListTail", Call("ParseResolvedExpr", st, No, No), "ParseResolvedExpr", No)
ParseFloatList(st) ==
  Call("ParseListTail", Call("ParseFloat", st, No, No), "ParseFloat", No)

ParseDefvar(st) ==
  LET s == WithLookahead(st)
      tok == Front(s)
      d == Call("OnVarDecl", s, tok.token_val, No)
      c == Call("ParseToken", Consume(d, 1), "kComma", No)
  IN IF tok.token_type = "kIdentifier"
     THEN IF Failed(d) THEN d
          ELSE IF Failed(c) THEN c ELSE Call("ParseResolvedExpr", c, No, No)
     ELSE EmitErrorHere(s, "Expected an identifier, but found '" \o ValStr(tok) \o "'")

ParseString(st) ==
  LET s == WithLookahead(st)
      tok == Front(s)
  IN IF tok.token_type = "kStringLit"
     THEN Consume(Call("OnTerminal", s, "kStr", tok), 1)
     ELSE EmitErrorHere(s, "Expected a string literal, but found '" \o ValStr(tok) \o "'")

ParseDirective(st) ==
  LET s == WithLookahead([st EXCEPT !.lx = SetIdentifierMatchRule(@, "kDirective")])
      tok == Front(s)
      directive == directives_map[tok.token_val]
      body == CASE directive \in {"kByte", "k2byte", "k4byte", "k8byte"} -> "ParseExpressionList"
                [] directive \in {"kFloat", "kDouble"} -> "ParseFloatList"
                [] directive \in {"kLocate", "kZeros", "kSkip"} -> "ParseResolvedExpr"
                [] directive \in {"kPadAlign", "kAlign"} -> "ParseImm"
                [] directive = "kDefVar" -> "ParseDefvar"
                [] directive \in {"kAscii", "kAsciz"} -> "ParseString"
      r == Call(body, ConsumeAndReset(Call("OnDirectivePre", s, directive, No)), No, No)
  IN IF tok.token_type # "kIdentifier"
     THEN EmitErrorHere(s, "Unexpected token '" \o ValStr(tok) \o "' in directive type")
     ELSE IF tok.token_val \notin DOMAIN directives_map
          THEN EmitErrorHere(s, "Unknown assembler directive '" \o ValStr(tok) \o "'")
          ELSE IF Failed(r) THEN r ELSE Call("OnDirectivePost", r, directive, No)

ParseLine(st) ==
  IF HasToken(st, "kDot")
  THEN Call("ParseDirective", Call("ParseToken", st, "kDot", No), No, No)
  ELSE Call("ParseInstruction", WithLookahead(st), No, No)

\* ParseProgram up to its first ParseLabel: an empty program is at its end
ParseProgramEntry(st) ==
  LET s == WithLookahead(st)
  IN IF Front(s).token_type = "kEof" THEN [s EXCEPT !.eof = TRUE] ELSE s

\* a loop that looks at the end of a line and leaves it in the input
ParseProgramWhilePeek(st) ==
  LET s == WithLookahead(st)
      tok == Front(s)
  IN CASE tok.token_type = "kEof" -> [s EXCEPT !.eof = TRUE]
       [] tok.token_type = "kEol" -> s
       [] OTHER -> EmitErrorHere(s, "Unexpected token")
\* the head of one iteration of the while loop of ParseProgram, up to ParseLabel
ParseProgramWhile(st) ==
  LET s == WithLookahead(st)
      tok == Front(s)
  IN CASE tok.token_type = "kEof" -> [s EXCEPT !.eof = TRUE]
       [] tok.token_type = "kEol" -> Consume(s, 1)
       [] OTHER -> EmitErrorHere(s, "Unexpected token '" \o ValStr(tok) \o
                                    "' where line should have ended")

Callouts ==
  {"OnDirectivePre", "OnDirectivePost", "OnInstructionPre", "OnInstructionPost",
   "OnOperandPre", "OnOperandPost", "OnResolvedExprPre", "OnResolvedExprPost", "OnOperator",
   "OnTerminal", "OnHiaddr", "OnLoaddr", "OnOpenParen", "OnCloseParen", "OnError",
   "OnLabelDecl", "OnVarDecl", "PostParseAction"}

Call(fn, st, a, b) ==
  CASE fn \in Callouts -> Plugin(st, fn, a, b)
    [] fn = "LexSingle" -> LexSingle(st)
    [] fn = "Lookahead" -> Lookahead(st)
    [] fn = "LookaheadN" -> LookaheadN(st, a)
    [] fn = "LookaheadFloat" -> LookaheadFloat(st)
    [] fn = "EatN" -> EatN(st, a)
    [] fn = "EvalToken" -> EvalToken(st, a)
    [] fn = "ParseToken" -> ParseToken(st, a)
    [] fn = "ParseImm" -> ParseImm(st)
    [] fn = "ParseId" -> ParseId(st)
    [] fn = "ParseIdLocation" -> ParseIdLocation(st)
    [] fn = "ParsePpcBuiltin" -> ParsePpcBuiltin(st)
    [] fn = "ParseBaseexpr" -> ParseBaseexpr(st)
    [] fn = "ParseParen" -> ParseParen(st)
    [] fn = "ParseUnary" -> ParseUnary(st)
    [] fn = "ParseLevelLoop" -> ParseLevelLoop(st, a)
    [] fn = "ParseMultiplication" -> ParseMultiplication(st)
    [] fn = "ParseAddition" -> ParseAddition(st)
    [] fn = "ParseShift" -> ParseShift(st)
    [] fn = "ParseBitand" -> ParseBitand(st)
    [] fn = "ParseBitxor" -> ParseBitxor(st)
    [] fn = "ParseBitor" -> ParseBitor(st)
    [] fn = "ParseOperand" -> ParseOperand(st)
    [] fn = "ParseStepsFrom" -> ParseStepsFrom(st, a, b)
    [] fn = "ParseOperandList" -> ParseOperandList(st, a)
    [] fn = "ParseInstruction" -> ParseInstruction(st)
    [] fn = "ParseLabel" -> ParseLabel(st)
    [] fn = "ParseResolvedExpr" -> ParseResolvedExpr(st)
    [] fn = "ParseFloat" -> ParseFloat(st)
    [] fn = "ParseListTail" -> ParseListTail(st, a)
    [] fn = "ParseExpressionList" -> ParseExpressionList(st)
    [] fn = "ParseFloatList" -> ParseFloatList(st)
    [] fn = "ParseDefvar" -> ParseDefvar(st)
    [] fn = "ParseString" -> ParseString(st)
    [] fn = "ParseDirective" -> ParseDirective(st)
    [] fn = "ParseLine" -> ParseLine(st)
    [] fn = "ParseProgramEntry" -> ParseProgramEntry(st)
    [] fn = "ParseProgramWhile" -> ParseProgramWhile(st)

(***************************************************************************)
(* ParseWithPlugin as a state machine.  pc is the position inside          *)
(* ParseProgram / ParseWithPlugin:                                         *)
(*   "ParseProgram"  entry of ParseProgram                                 *)
(*   "ParseLabel"    about to call ParseLabel                              *)
(*   "ParseLine"     about to call ParseLine                               *)
(*   "NextLine"      head of the while loop                                *)
(*   "PostParse"     ParseProgram returned without error                   *)
(*   "Error"         parse_state.error is set: OnError, ForwardError       *)
(*   "Done"          SetOwner(nullptr)                                     *)
(***************************************************************************)
VARIABLES st, pc
vars == <<st, pc>>

\* base_virtual_address of ParseToIR
BaseAddress == Hex32(128, 0, 0, 0)

MaxLines == 2
MaxFault == 6

RECURSIVE JoinLines(_)
JoinLines(ls) ==
  IF ls = <<>> THEN ""
  ELSE IF Len(ls) = 1 THEN ls[1] ELSE ls[1] \o "\n" \o JoinLines(Tail(ls))

\* every text of at most MaxLines lines taken from a catalogue of lines
Programs(lines) == {JoinLines(p) : p \in UNION {[1..k -> lines] : k \in 0..MaxLines}}

\* symbols, references and fixups
SymbolLines ==
  {"lbl: nop", "b lbl", ".defvar lbl, 0x80008000", "lis r3, lbl@ha", ".4byte lbl@ha",
   "lbl:", "b lbl+und"}

Init ==
  /\ pc = "ParseProgram"
  /\ \E src \in Programs(SymbolLines) : st = ParseState(src, BaseAddress, 0)

ParseProgramBegin ==
  /\ pc = "ParseProgram"
  /\ st' = Call("ParseProgramEntry", st, No, No)
  /\ pc' = IF st'.eof THEN "PostParse" ELSE "ParseLabel"

ParseLabelStep ==
  /\ pc = "ParseLabel"
  /\ st' = Call("ParseLabel", st, No, No)
  /\ pc' = IF Failed(st') THEN "Error" ELSE "ParseLine"

ParseLineStep ==
  /\ pc = "ParseLine"
  /\ st' = Call("ParseLine", st, No, No)
  /\ pc' = IF Failed(st') THEN "Error" ELSE "NextLine"

ParseProgramLoop ==
  /\ pc = "NextLine"
  /\ st' = Call("ParseProgramWhile", st, No, No)
  /\ pc' = IF Failed(st') THEN "Error" ELSE IF st'.eof THEN "PostParse" ELSE "ParseLabel"

PostParse ==
  /\ pc = "PostParse"
  /\ \E order \in {"lhs_first", "rhs_first"} : st' = Call("PostParseAction", st, order, No)
  /\ pc' = IF Failed(st') THEN "Error" ELSE "Done"

ReportError ==
  /\ pc = "Error"
  /\ st' = [Call("OnError", st, No, No) EXCEPT !.owner_error = st.error]
  /\ pc' = "Done"

Next ==
  \/ ParseProgramBegin
  \/ ParseLabelStep
  \/ ParseLineStep
  \/ ParseProgramLoop
  \/ PostParse
  \/ ReportError

Spec == Init /\ [][Next]_vars

\* data directives, padding and the directives that open a block
DataLines ==
  {".byte 1, 2, 3", ".2byte 0x1234", ".4byte 1, 2", ".8byte 1", ".float 1.5, 2.5",
   ".double 1.0", ".locate 0x80000000", ".locate 0xfffffffc", ".skip 8", ".align 4", "nop",
   ".zeros 3", ".padalign 2", ".byte"}

InitData ==
  /\ pc = "ParseProgram"
  /\ \E src \in Programs(DataLines) : st = ParseState(src, BaseAddress, 0)

SpecData == InitData /\ [][Next]_vars

\* a plugin that raises its own error in one of its first MaxFault callouts
\* (fault 0: in none of them)
FaultLines ==
  {".4byte 1*2*3", ".4byte 1*2*)", "b (1)+2", ".float 1.0", "lbl: nop", "b lbl+und"}

InitFault ==
  /\ pc = "ParseProgram"
  /\ \E src \in Programs(FaultLines), fault \in 0..MaxFault :
        st = ParseState(src, BaseAddress, fault)

SpecFault == InitFault /\ [][Next]_vars

\* blanks, empty lines and comments around statements
TextLines == {"", "nop", " foo", "foo", "b )", "nop # c", "\tnop", "nop nop"}

InitText ==
  /\ pc = "ParseProgram"
  /\ \E src \in Programs(TextLines) : st = ParseState(src, BaseAddress, 0)

SpecText == InitText /\ [][Next]_vars

\* expressions: the current address, parentheses, back-ticks (written ! here),
\* identifiers defined before, after or never
\* Every production with a loop, and the errors that end them early.  The run
\* is fair: a parser that is not at its end goes on to its next program point.
\* Next is enabled exactly when pc is not "Done" and every step of Next changes
\* pc, so this is the weak fairness of Next, written over pc.
LoopLines ==
  {"", "nop", "lbl:", "b )", "b <", ".4byte 1*2+3|4", ".byte 1, 2, 3", ".float 1.5, 2.5",
   ".float x", ".ascii \"a\"", "nop nop", " ?"}
InitLoop ==
  /\ pc = "ParseProgram"
  /\ \E src \in Programs(LoopLines) : st = ParseState(src, BaseAddress, 0)
ProgramPoints ==
  {"ParseProgram", "ParseLabel", "ParseLine", "NextLine", "PostParse", "Error", "Done"}
Advance == pc # "Done" /\ pc' \in ProgramPoints \ {pc}
SpecLoop == InitLoop /\ [][Next]_vars /\ WF_pc(Advance)

\* operands with two and more operators, of one level and of several
PrecedenceLines ==
  {"b 1-2-3", "b 1/2/3", "b 1|2&3", "b 1&2|3", "b 1+2*3", "b 1*2+3", "b 1<<2+3", "b 1+2<<3",
   "b 1>>2>>3", "b 1^2|3", "b 1|2^3", "b 1&2^3", "b 1&2<<3", "b -1-2", "b 1--2", "b ~1&2",
   "b -~1", "b 1-(2-3)", "b -(1+2)*3", "b 1|2^3&4<<5+6*7", "b 1*2+3<<4&5^6|7", "b 1", "b 1+"}
InitPrecedence ==
  /\ pc = "ParseProgram"
  /\ \E src \in Programs(PrecedenceLines) : st = ParseState(src, BaseAddress, 0)
SpecPrecedence == InitPrecedence /\ [][Next]_vars

(***************************************************************************)
(* The editor of the assembler widget: highlightBlock hands one line of    *)
(* the text, without its newline, to ParseWithPlugin with a fresh          *)
(* HighlightParsePlugin.                                                   *)
(***************************************************************************)
HighlightLines ==
  {"nop", " nop", "blr", "lbl:", "lbl: nop", "  lbl: b lbl", ".defvar v, 1", "b lbl",
   "addi r3, r4, 1", "ori r3, r3, 0x10", "lwz r3, 4(r1)", "cmpwi cr1, r3, 2", "b lr",
   "b f1", "b lt", "li r3, lbl@l", "lis r3, lbl@ha", "b (1)", "b 1+", ".4byte 0x10",
   ".byte 010", ".float 1.5", ".ascii \"a\"", "b .", "foo"}

InitHighlight ==
  /\ pc = "ParseProgram"
  /\ \E text \in HighlightLines :
        st = [ParseState(text, BaseAddress, 0) EXCEPT !.plugin = "HighlightParsePlugin"]

SpecHighlight == InitHighlight /\ [][Next]_vars

\* programs in which .locate brings a second instruction to the address of the
\* first, so that a reference before the declaration of a label and one after
\* it are made from the same address
MaxOrder == 3
OrderLines == {"b lbl", ".locate 0x80000000", "lbl: b lbl", "lbl:", "nop"}

InitOrder ==
  /\ pc = "ParseProgram"
  /\ \E p \in UNION {[1..k -> OrderLines] : k \in 0..MaxOrder} :
        st = ParseState(JoinLines(p), BaseAddress, 0)

SpecOrder == InitOrder /\ [][Next]_vars

ExprLines ==
  {"nop", "b .", "lbl: nop", "b !lbl!", "b (lbl)", ".4byte (5)", ".4byte lbl",
   ".defvar v, v+1", "b 1+und", "b und"}
BaseAddresses == {BaseAddress, Hex32(128, 0, 48, 0)}

InitExpr ==
  /\ pc = "ParseProgram"
  /\ \E src \in Programs(ExprLines), base \in BaseAddresses : st = ParseState(src, base, 0)

SpecExpr == InitExpr /\ [][Next]_vars

(***************************************************************************)
(* Operand descriptors (AssemblerTables.h, AssemblerTables.cpp)            *)
(***************************************************************************)
\* inclusive mask [left, right], bit 0 the most significant one
mask(left, right) ==
  Cast(UAnd(USub(UShl(U64(1), 32 - left), U64(1)),
            UNot(USub(UShl(U64(1), 31 - right), U64(1)))), 4)

OperandDesc(name, m, shift, is_signed) ==
  [name |-> name, mask |-> m, shift |-> shift, is_signed |-> is_signed]

\* the operands of the Gekko/Broadway user manual, section 12.1.2
OperandDescs ==
  {OperandDesc("_A", mask(11, 15), 16, FALSE), OperandDesc("_B", mask(16, 20), 11, FALSE),
   OperandDesc("_BD", mask(16, 29), 0, TRUE), OperandDesc("_BI", mask(11, 15), 16, FALSE),
   OperandDesc("_BO", mask(6, 10), 21, FALSE), OperandDesc("_C", mask(21, 25), 6, FALSE),
   OperandDesc("_Crba", mask(11, 15), 16, FALSE), OperandDesc("_Crbb", mask(16, 20), 11, FALSE),
   OperandDesc("_Crbd", mask(6, 10), 21, FALSE), OperandDesc("_Crfd", mask(6, 8), 23, FALSE),
   OperandDesc("_Crfs", mask(11, 13), 18, FALSE), OperandDesc("_CRM", mask(12, 19), 12, FALSE),
   OperandDesc("_D", mask(6, 10), 21, FALSE), OperandDesc("_FM", mask(7, 14), 17, FALSE),
   OperandDesc("_I1", mask(16, 16), 15, FALSE), OperandDesc("_I2", mask(21, 21), 10, FALSE),
   OperandDesc("_IMM", mask(16, 19), 12, FALSE), OperandDesc("_L", mask(10, 10), 21, FALSE),
   OperandDesc("_LI", mask(6, 29), 0, TRUE), OperandDesc("_MB", mask(21, 25), 6, FALSE),
   OperandDesc("_ME", mask(26, 30), 1, FALSE), OperandDesc("_NB", mask(16, 20), 11, FALSE),
   OperandDesc("_Offd", mask(16, 31), 0, TRUE), OperandDesc("_OffdPs", mask(19, 31), 0, TRUE),
   OperandDesc("_S", mask(6, 10), 21, FALSE), OperandDesc("_SH", mask(16, 20), 11, FALSE),
   OperandDesc("_SIMM", mask(16, 31), 0, TRUE), OperandDesc("_SPR", mask(11, 20), 11, FALSE),
   OperandDesc("_SR", mask(12, 15), 16, FALSE), OperandDesc("_TO", mask(6, 10), 21, FALSE),
   OperandDesc("_TPR", mask(11, 20), 11, FALSE), OperandDesc("_UIMM", mask(16, 31), 0, FALSE),
   OperandDesc("_W1", mask(17, 19), 12, FALSE), OperandDesc("_W2", mask(22, 24), 7, FALSE)}

MaxVal(D) ==
  LET mask_sh == UShr(D.mask, D.shift)
  IN IF D.is_signed
     THEN LET mask_hibit == UAnd(mask_sh, UXor(mask_sh, UShr(mask_sh, 1)))
          IN USub(mask_hibit, U32(1))
     ELSE mask_sh

MinVal(D) == IF D.is_signed THEN UNot(MaxVal(D)) ELSE U32(0)

TruncBits(D) ==
  LET mask_sh == UShr(D.mask, D.shift)
      mask_lobit == UAnd(mask_sh, UXor(mask_sh, UShl(mask_sh, 1)))
  IN USub(mask_lobit, U32(1))

\* a test that would read every field as an unsigned one
FitsUnsigned(D, val) == UAnd(UShr(D.mask, D.shift), val) = val
Fits(D, val) ==
  LET mask_sh == UShr(D.mask, D.shift)
  IN IF D.is_signed
     THEN LET mask_hibit == UAnd(mask_sh, UXor(mask_sh, UShr(mask_sh, 1)))
              mask_lobit == UAnd(mask_sh, UXor(mask_sh, UShl(mask_sh, 1)))
              positive_max == USub(mask_hibit, U32(1))
              negative_max == UNot(positive_max)
              truncate_bits == USub(mask_lobit, U32(1))
          IN (ULeq(val, positive_max) \/ UGeq(val, negative_max)) /\
             IsZero(UAnd(val, truncate_bits))
     ELSE UAnd(mask_sh, val) = val

Fit(D, val) == UAnd(UShl(val, D.shift), D.mask)

\* string directives: plain characters, simple, octal and hexadecimal escapes,
\* and literals that the string DFA rejects
StringLines ==
  {".ascii \"ab\"", ".ascii \"\\101\"", ".ascii \"\\1234\"", ".ascii \"\\7z\"",
   ".ascii \"\\x41\"", ".ascii \"\\x4g\"", ".ascii \"\\n\\\\\"", ".asciz \"a\"",
   ".ascii \"\"", ".ascii \"a", ".ascii \"\\xg\"", ".ascii 1"}

InitString ==
  /\ pc = "ParseProgram"
  /\ \E src \in Programs(StringLines) : st = ParseState(src, BaseAddress, 0)

SpecString == InitString /\ [][Next]_vars

(***************************************************************************)
(* The lexer on its own: a client that looks one token ahead, evaluates it *)
(* at one of the integer widths and eats it, until the end of the input;   *)
(* or that first asks for a float literal, as ParseFloat does.  Here st is *)
(* the record of the lexer lx, the token tok it returned last, the request *)
(* how that returned it, and the result val of EvalToken<tname> on tok.    *)
(***************************************************************************)
RegisterWords ==
  {"r0", "r9", "r10", "r31", "r32", "r33", "r05", "r100", "f0", "f31", "f32", "f40",
   "cr0", "cr7", "cr8", "cr10", "r", "rx", "lt", "ctr"}
IntegerWords ==
  {"0", "7", "255", "256", "65537", "017", "0377", "0x1F", "0x1ff", "0x10000",
   "0b101", "0b0", "0b11111111"}
FloatTexts ==
  {"1.5", "1e5", "+.5e-3", "-2", "12", "1.", "1.5e", "1.5e+", "1.5x", "1.5.5", "e5", ".",
   "x", "", "+", "1.5e10 ", ".5"}

InitLex ==
  \/ /\ pc = "Lookahead"
     /\ \E text \in RegisterWords \cup IntegerWords :
           st = [lx |-> Lexer(text), tok |-> No, how |-> "", val |-> No, tname |-> ""]
  \/ /\ pc = "LookaheadFloat"
     /\ \E text \in FloatTexts :
           st = [lx |-> Lexer(text), tok |-> No, how |-> "", val |-> No, tname |-> ""]

LexLookahead ==
  /\ pc = "Lookahead"
  /\ st' = Call("Lookahead", st.lx, No, No) @@
             [how |-> "Lookahead", val |-> No, tname |-> ""]
  /\ pc' = "EvalToken"

LexLookaheadFloat ==
  /\ pc = "LookaheadFloat"
  /\ st' = Call("LookaheadFloat", st.lx, No, No) @@
             [how |-> "LookaheadFloat", val |-> No, tname |-> ""]
  /\ pc' = "Eat"

LexEvalToken ==
  /\ pc = "EvalToken"
  /\ \E tname \in {"u8", "u16", "u32", "u64"} :
        st' = [st EXCEPT !.val = Call("EvalToken", st.tok, tname, No), !.tname = tname]
  /\ pc' = "Eat"

LexEat ==
  /\ pc = "Eat"
  /\ st' = [st EXCEPT !.lx = Call("EatN", @, 1, No)]
  /\ pc' = IF st.tok.token_type = "kEof" THEN "Done" ELSE "Lookahead"

NextLex ==
  \/ LexLookahead
  \/ LexLookaheadFloat
  \/ LexEvalToken
  \/ LexEat

SpecLex == InitLex /\ [][NextLex]_vars

(***************************************************************************)
(* An encoder that takes a descriptor of the catalogue and a value: it     *)
(* asks for the bounds of the operand, tests the value with Fits and       *)
(* places it with Fit.  Here st is the record of the descriptor desc, the  *)
(* value val and the results.                                              *)
(***************************************************************************)
FitValues ==
  {U32(0), U32(1), U32(3), U32(4), U32(7), U32(8), U32(31), U32(32), U32(255), U32(256),
   U32(1023), U32(1024), Hex32(0, 0, 15, 255), Hex32(0, 0, 16, 0), Hex32(0, 0, 127, 252),
   Hex32(0, 0, 127, 255), Hex32(0, 0, 128, 0), Hex32(0, 0, 255, 255), Hex32(0, 1, 0, 0),
   Hex32(1, 255, 255, 252), Hex32(2, 0, 0, 0), Hex32(253, 255, 255, 252),
   Hex32(254, 0, 0, 0), Hex32(254, 0, 0, 2), Hex32(255, 255, 127, 255),
   Hex32(255, 255, 128, 0), Hex32(255, 255, 128, 1), Hex32(255, 255, 239, 255),
   Hex32(255, 255, 240, 0), Hex32(255, 255, 255, 252), Hex32(255, 255, 255, 255),
   Hex32(128, 0, 0, 0)}

InitFit ==
  /\ pc = "Bounds"
  /\ \E D \in OperandDescs, v \in FitValues :
        st = [desc |-> D, val |-> v, max |-> No, min |-> No, trunc |-> No, fits |-> No,
              word |-> No]

OperandBounds ==
  /\ pc = "Bounds"
  /\ st' = [st EXCEPT !.max = MaxVal(st.desc), !.min = MinVal(st.desc),
                      !.trunc = TruncBits(st.desc)]
  /\ pc' = "Fits"

OperandFits ==
  /\ pc = "Fits"
  /\ st' = [st EXCEPT !.fits = Fits(st.desc, st.val)]
  /\ pc' = "Fit"

OperandFit ==
  /\ pc = "Fit"
  /\ st' = [st EXCEPT !.word = Fit(st.desc, st.val)]
  /\ pc' = "Done"

NextFit ==
  \/ OperandBounds
  \/ OperandFits
  \/ OperandFit

SpecFit == InitFit /\ [][NextFit]_vars

(***************************************************************************)
(* A client of the lexer that looks ahead, changes the identifier match    *)
(* rule and consumes tokens in any order, as ParseLabel, ParseInstruction  *)
(* and ParseDirective do between them.  Here st is the record of the lexer *)
(* lx, the consumed tokens delivered (each with the rule in force, the     *)
(* position from where it was lexed and the position upto where the input  *)
(* was consumed with it) and the token values dropped by the last rule     *)
(* change that found tokens in the buffer.                                 *)
(***************************************************************************)
MaxAhead == 2
RuleTexts == {"add. r3", "bne+ lbl", "a.b", " x+1", "nop\nb.", "2byte 1", "1-2", ""}
MatchRules == {"kTypical", "kMnemonic", "kDirective"}

\* the position of the first character that is not consumed yet
NextStart(L) == IF L.lexed_tokens = <<>> THEN L.pos ELSE L.lexed_tokens[1].tag

InitRule ==
  /\ pc = "Lex"
  /\ \E text \in RuleTexts : st = [lx |-> Lexer(text), delivered |-> <<>>, dropped |-> <<>>]

RuleLookahead ==
  /\ pc = "Lex"
  /\ \E n \in 1..MaxAhead :
        /\ Len(st.lx.lexed_tokens) < n
        /\ st' = [st EXCEPT !.lx = Call("LookaheadN", @, n, No).lx]
  /\ pc' = "Lex"

RuleSet ==
  /\ pc = "Lex"
  /\ \E set \in MatchRules :
        st' = [st EXCEPT !.lx = SetIdentifierMatchRule(@, set),
                         !.dropped = IF st.lx.lexed_tokens = <<>> THEN @
                                     ELSE [i \in DOMAIN st.lx.lexed_tokens |->
                                             st.lx.lexed_tokens[i].val.token_val]]
  /\ pc' = "Lex"

RuleEat ==
  /\ pc = "Lex"
  /\ LET la == Call("Lookahead", st.lx, No, No)
         eaten == Eat(la.lx)
     IN /\ st' = [st EXCEPT !.lx = eaten,
                            !.delivered = Append(@, [tok |-> la.tok,
                                                     rule |-> st.lx.match_rule,
                                                     from |-> NextStart(st.lx),
                                                     upto |-> NextStart(eaten)])]
        /\ pc' = IF la.tok.token_type = "kEof" THEN "Done" ELSE "Lex"

NextRule ==
  \/ RuleLookahead
  \/ RuleSet
  \/ RuleEat

SpecRule == InitRule /\ [][NextRule]_vars

(***************************************************************************)
(* The Action Replay output of the assembler widget                        *)
(* (AssemblerWidget.cpp, DeserializeToAr).  st holds the blocks, the block *)
(* in work, the index i, the text written to out_str line by line, and,    *)
(* for observation, the indices read from the vector of each block.  A     *)
(* read past the end of the vector is undefined: it yields any byte or     *)
(* the process faults; the model follows at most MaxStray iterations with  *)
(* such reads before the fault.                                            *)
(*   "Block"  head of the loop over the blocks                             *)
(*   "Words"  head of the loop of the 32 bit writes                        *)
(*   "Bytes"  head of the loop of the 8 bit writes                         *)
(*   "Fault"  the process has faulted in a read past the end               *)
(***************************************************************************)
MaxBytes == 6
MaxStray == 1
StrayBytes == {0, 255}
\* nop, blr
Code == <<96, 0, 0, 0, 78, 128, 0, 32>>
CodeBlock(block_address, n) ==
  [block_address |-> block_address, instructions |-> SubSeq(Code, 1, n)]
CodeBlocks ==
  {CodeBlock(a, n) : a \in {Hex32(128, 0, 0, 0), Hex32(129, 255, 255, 254)}, n \in 0..MaxBytes}

HexDigits == <<"0", "1", "2", "3", "4", "5", "6", "7", "8", "9", "a", "b", "c", "d", "e", "f">>
\* {:02x} of every byte of v, {:08x} of a u32
RECURSIVE HexText(_)
HexText(v) ==
  IF v = <<>> THEN ""
  ELSE HexDigits[(v[1] \div 16) + 1] \o HexDigits[(v[1] % 16) + 1] \o HexText(Tail(v))

\* ((blk.block_address + i) & 0x1ffffff) | flag, as a u32
ArAddress(blk, i, flag) ==
  UOr(UAnd(Cast(UAdd(Cast(blk.block_address, 8), U64(i)), 4), Hex32(1, 255, 255, 255)), flag)

\* i < blk.instructions.size() - 3, in size_t
BelowSizeMinus3(blk, i) == ~UGeq(U64(i), USub(U64(Len(blk.instructions)), U64(3)))

InitAr ==
  /\ pc = "Block"
  /\ \E blocks \in UNION {[1..k -> CodeBlocks] : k \in 1..2} :
        st = [blocks |-> blocks, b |-> 1, i |-> 0, out_str |-> <<>>, reads |-> {}, stray |-> 0]

ArBlock ==
  /\ pc = "Block"
  /\ st.b <= Len(st.blocks)
  /\ IF st.blocks[st.b].instructions = <<>>
     THEN st' = [st EXCEPT !.b = @ + 1] /\ pc' = "Block"
     ELSE st' = [st EXCEPT !.i = 0] /\ pc' = "Words"

ArReturn ==
  /\ pc = "Block"
  /\ st.b > Len(st.blocks)
  /\ st' = st
  /\ pc' = "Done"

ArWord ==
  /\ pc = "Words"
  /\ LET blk == st.blocks[st.b]
         n == Len(blk.instructions)
         within == st.i + 3 < n
         seen == [st EXCEPT !.reads = @ \cup {[b |-> st.b, index |-> st.i + k] : k \in 0..3}]
     IN IF BelowSizeMinus3(blk, st.i)
        THEN \/ /\ within \/ st.stray < MaxStray
                /\ \E past \in [0..3 -> StrayBytes] :
                     LET word == [k \in 1..4 |->
                                    IF st.i + k <= n THEN blk.instructions[st.i + k]
                                    ELSE past[k - 1]]
                     IN st' = [seen EXCEPT
                                 !.out_str = Append(@, HexText(ArAddress(blk, st.i, Hex32(4, 0, 0, 0)))
                                                       \o " " \o HexText(word) \o "\n"),
                                 !.i = @ + 4,
                                 !.stray = IF within THEN @ ELSE @ + 1]
                /\ pc' = "Words"
             \/ /\ ~within
                /\ st' = seen
                /\ pc' = "Fault"
        ELSE st' = st /\ pc' = "Bytes"

ArByte ==
  /\ pc = "Bytes"
  /\ LET blk == st.blocks[st.b]
     IN IF st.i < Len(blk.instructions)
        THEN /\ st' = [st EXCEPT
                         !.reads = @ \cup {[b |-> st.b, index |-> st.i]},
                         !.out_str = Append(@, HexText(ArAddress(blk, st.i, U32(0))) \o " 000000"
                                               \o HexText(<<blk.instructions[st.i + 1]>>) \o "\n"),
                         !.i = @ + 1]
             /\ pc' = "Bytes"
        ELSE st' = [st EXCEPT !.b = @ + 1] /\ pc' = "Block"

NextAr == ArBlock \/ ArReturn \/ ArWord \/ ArByte

SpecAr == InitAr /\ [][NextAr]_vars

(***************************************************************************)
(* Mnemonic tables (AssemblerTables.h, AssemblerTables.cpp): the parser    *)
(* table maps a mnemonic with its variant suffix to the key                *)
(* enumerator * kVariantPermutations + variant bits, the assembler table   *)
(* holds one descriptor for every key.  The arithmetic family (A-2 of the  *)
(* assembler table) is written out in full.                                *)
(***************************************************************************)
kVariantPermutations == 4
kPlainMnemonic == 0
kRecordBit == 1
kOverflowExceptionBit == 2

\* enum class GekkoMnemonic, the enumerators of the arithmetic family
GekkoMnemonic ==
  <<"kAdd", "kAddc", "kAdde", "kAddi", "kAddic", "kAddicDot", "kAddis", "kAddme", "kAddze",
    "kDivw", "kDivwu", "kMulhw", "kMulhwu", "kMulli", "kMullw", "kNeg", "kSubf", "kSubfc",
    "kSubfe", "kSubfic", "kSubfme", "kSubfze">>

\* static_cast<size_t>(mnemonic_enum)
EnumValue(mnemonic_enum) ==
  (CHOOSE i \in 1..Len(GekkoMnemonic) : GekkoMnemonic[i] = mnemonic_enum) - 1

insert_val(val, left, right) == UAnd(UShl(U32(val), 31 - right), mask(left, right))
insert_opcode(opcode) == insert_val(opcode, 0, 5)

\* parser tables
TOKEN(mnemonic_str, mnemonic_enum, variant_bits, alg) ==
  mnemonic_str :> [mnemonic_index |-> EnumValue(mnemonic_enum) * kVariantPermutations +
                                      variant_bits,
                   parse_algorithm |-> alg]
PLAIN_TOKEN(mnemonic_str, mnemonic_enum, alg) ==
  TOKEN(mnemonic_str, mnemonic_enum, kPlainMnemonic, alg)
RC_TOKEN(mnemonic_str, mnemonic_enum, alg) ==
  TOKEN(mnemonic_str, mnemonic_enum, kPlainMnemonic, alg) @@
  TOKEN(mnemonic_str \o ".", mnemonic_enum, kRecordBit, alg)
OERC_TOKEN(mnemonic_str, mnemonic_enum, alg) ==
  TOKEN(mnemonic_str, mnemonic_enum, kPlainMnemonic, alg) @@
  TOKEN(mnemonic_str \o ".", mnemonic_enum, kRecordBit, alg) @@
  TOKEN(mnemonic_str \o "o", mnemonic_enum, kOverflowExceptionBit, alg) @@
  TOKEN(mnemonic_str \o "o.", mnemonic_enum, kRecordBit + kOverflowExceptionBit, alg)

arithmetic_tokens ==
  OERC_TOKEN("add", "kAdd", "Op3") @@ OERC_TOKEN("addc", "kAddc", "Op3") @@
  OERC_TOKEN("adde", "kAdde", "Op3") @@ PLAIN_TOKEN("addi", "kAddi", "Op3") @@
  PLAIN_TOKEN("addic", "kAddic", "Op3") @@ PLAIN_TOKEN("addic.", "kAddicDot", "Op3") @@
  PLAIN_TOKEN("addis", "kAddis", "Op3") @@ OERC_TOKEN("addme", "kAddme", "Op2") @@
  OERC_TOKEN("addze", "kAddze", "Op2") @@ OERC_TOKEN("divw", "kDivw", "Op3") @@
  OERC_TOKEN("divwu", "kDivwu", "Op3") @@ RC_TOKEN("mulhw", "kMulhw", "Op3") @@
  RC_TOKEN("mulhwu", "kMulhwu", "Op3") @@ PLAIN_TOKEN("mulli", "kMulli", "Op3") @@
  OERC_TOKEN("mullw", "kMullw", "Op3") @@ OERC_TOKEN("neg", "kNeg", "Op2") @@
  OERC_TOKEN("subf", "kSubf", "Op3") @@ OERC_TOKEN("subfc", "kSubfc", "Op3") @@
  OERC_TOKEN("subfe", "kSubfe", "Op3") @@ PLAIN_TOKEN("subfic", "kSubfic", "Op3") @@
  OERC_TOKEN("subfme", "kSubfme", "Op2") @@ OERC_TOKEN("subfze", "kSubfze", "Op2")

\* assembler tables; the operands of a descriptor are kept as their names
MnemonicDesc(initial_value, operands) ==
  [initial_value |-> initial_value, operand_count |-> Len(operands),
   operand_masks |-> operands]
kInvalidMnemonic == MnemonicDesc(U32(0), <<>>)
EMIT_MNEMONIC_ENTRY(opcode_val, extra_bits, operands) ==
  MnemonicDesc(UOr(insert_opcode(opcode_val), extra_bits), operands)
MNEMONIC(opcode_val, extra_bits, operands) ==
  <<EMIT_MNEMONIC_ENTRY(opcode_val, extra_bits, operands),
    kInvalidMnemonic, kInvalidMnemonic, kInvalidMnemonic>>
BASIC_MNEMONIC(opcode_val, operands) == MNEMONIC(opcode_val, U32(0), operands)
RC_MNEMONIC(opcode_val, extra_bits, operands) ==
  <<EMIT_MNEMONIC_ENTRY(opcode_val, extra_bits, operands),
    EMIT_MNEMONIC_ENTRY(opcode_val, UOr(extra_bits, insert_val(1, 31, 31)), operands),
    kInvalidMnemonic, kInvalidMnemonic>>
\* a table whose overflow variants were left out
OERC_MNEMONIC_NoOverflow(opcode_val, extra_bits, operands) ==
  RC_MNEMONIC(opcode_val, extra_bits, operands)
OERC_MNEMONIC(opcode_val, extra_bits, operands) ==
  <<EMIT_MNEMONIC_ENTRY(opcode_val, extra_bits, operands),
    EMIT_MNEMONIC_ENTRY(opcode_val, UOr(extra_bits, insert_val(1, 31, 31)), operands),
    EMIT_MNEMONIC_ENTRY(opcode_val, UOr(extra_bits, insert_val(1, 21, 21)), operands),
    EMIT_MNEMONIC_ENTRY(opcode_val,
                        UOr(UOr(extra_bits, insert_val(1, 31, 31)), insert_val(1, 21, 21)),
                        operands)>>

\* mnemonics, section A-2
arithmetic_mnemonics ==
  OERC_MNEMONIC(31, insert_val(266, 22, 30), <<"_D", "_A", "_B">>) \o
  OERC_MNEMONIC(31, insert_val(10, 22, 30), <<"_D", "_A", "_B">>) \o
  OERC_MNEMONIC(31, insert_val(138, 22, 30), <<"_D", "_A", "_B">>) \o
  BASIC_MNEMONIC(14, <<"_D", "_A", "_SIMM">>) \o
  BASIC_MNEMONIC(12, <<"_D", "_A", "_SIMM">>) \o
  BASIC_MNEMONIC(13, <<"_D", "_A", "_SIMM">>) \o
  BASIC_MNEMONIC(15, <<"_D", "_A", "_SIMM">>) \o
  OERC_MNEMONIC(31, insert_val(234, 22, 30), <<"_D", "_A">>) \o
  OERC_MNEMONIC(31, insert_val(202, 22, 30), <<"_D", "_A">>) \o
  OERC_MNEMONIC(31, insert_val(491, 22, 30), <<"_D", "_A", "_B">>) \o
  OERC_MNEMONIC(31, insert_val(459, 22, 30), <<"_D", "_A", "_B">>) \o
  RC_MNEMONIC(31, insert_val(75, 22, 30), <<"_D", "_A", "_B">>) \o
  RC_MNEMONIC(31, insert_val(11, 22, 30), <<"_D", "_A", "_B">>) \o
  BASIC_MNEMONIC(7, <<"_D", "_A", "_SIMM">>) \o
  OERC_MNEMONIC(31, insert_val(235, 22, 30), <<"_D", "_A", "_B">>) \o
  OERC_MNEMONIC(31, insert_val(104, 22, 30), <<"_D", "_A">>) \o
  OERC_MNEMONIC(31, insert_val(40, 22, 30), <<"_D", "_A", "_B">>) \o
  OERC_MNEMONIC(31, insert_val(8, 22, 30), <<"_D", "_A", "_B">>) \o
  OERC_MNEMONIC(31, insert_val(136, 22, 30), <<"_D", "_A", "_B">>) \o
  BASIC_MNEMONIC(8, <<"_D", "_A", "_SIMM">>) \o
  OERC_MNEMONIC(31, insert_val(232, 22, 30), <<"_D", "_A">>) \o
  OERC_MNEMONIC(31, insert_val(200, 22, 30), <<"_D", "_A">>)

(***************************************************************************)
(* Mnemonic resolution of one arithmetic instruction: the parser finds the *)
(* key of the mnemonic token, the code generator fetches the descriptor    *)
(* at that key.  Here st is the record of the token, the ParseInfo and the *)
(* descriptor.                                                             *)
(***************************************************************************)
InitTable ==
  /\ pc = "FindMnemonic"
  /\ \E name \in DOMAIN arithmetic_tokens : st = [name |-> name, info |-> No, desc |-> No]

FindMnemonic ==
  /\ pc = "FindMnemonic"
  /\ st' = [st EXCEPT !.info = arithmetic_tokens[st.name]]
  /\ pc' = "FetchDescriptor"

FetchDescriptor ==
  /\ pc = "FetchDescriptor"
  /\ st' = [st EXCEPT !.desc = arithmetic_mnemonics[st.info.mnemonic_index + 1]]
  /\ pc' = "Done"

NextTable ==
  \/ FindMnemonic
  \/ FetchDescriptor

SpecTable == InitTable /\ [][NextTable]_vars

(***************************************************************************)
(* Extended mnemonics (AssemblerTables.h, AssemblerTables.cpp).  The       *)
(* parser table maps the name of an extended mnemonic to the key           *)
(* enumerator * kVariantPermutations + variant bits and to its ParseAlg;   *)
(* the assembler table holds for every key the base mnemonic and the       *)
(* callback that rewrites the parsed operands into the operands of the     *)
(* base mnemonic.  Both tables are written out in full.  The value of an   *)
(* operand is kept as the text of the expression that produced it: the     *)
(* callbacks branch on the number of operands only.                        *)
(***************************************************************************)
kMaxOperands == 5
kLinkBit == 1
kAbsoluteAddressBit == 2

\* enum class ExtendedGekkoMnemonic: one enumerator for every row of
\* extended_mnemonics, in the order of the rows
ExtendedGekkoMnemonic ==
  <<"kSubi", "kSubis", "kSubic", "kSubicDot", "kSub", "kSubc", "kCmpwi", "kCmpw", "kCmplwi",
    "kCmplw", "kExtlwi", "kExtrwi", "kInslwi", "kInsrwi", "kRotlwi", "kRotrwi", "kRotlw", "kSlwi",
    "kSrwi", "kClrlwi", "kClrrwi", "kClrlslwi", "kBt", "kBf", "kBdnz", "kBdnzt", "kBdnzf", "kBdz",
    "kBdzt", "kBdzf", "kBtPredict", "kBfPredict", "kBdnzPredict", "kBdnztPredict",
    "kBdnzfPredict", "kBdzPredict", "kBdztPredict", "kBdzfPredict", "kBlr", "kBtlr", "kBflr",
    "kBdnzlr", "kBdnztlr", "kBdnzflr", "kBdzlr", "kBdztlr", "kBdzflr", "kBtlrPredict",
    "kBflrPredict", "kBdnzlrPredict", "kBdnztlrPredict", "kBdnzflrPredict", "kBdzlrPredict",
    "kBdztlrPredict", "kBdzflrPredict", "kBctr", "kBtctr", "kBfctr", "kBtctrPredict",
    "kBfctrPredict", "kBlt", "kBle", "kBeq", "kBge", "kBgt", "kBnl", "kBne", "kBng", "kBso",
    "kBns", "kBun", "kBnu", "kBltPredict", "kBlePredict", "kBeqPredict", "kBgePredict",
    "kBgtPredict", "kBnlPredict", "kBnePredict", "kBngPredict", "kBsoPredict", "kBnsPredict",
    "kBunPredict", "kBnuPredict", "kBltlr", "kBlelr", "kBeqlr", "kBgelr", "kBgtlr", "kBnllr",
    "kBnelr", "kBnglr", "kBsolr", "kBnslr", "kBunlr", "kBnulr", "kBltlrPredict", "kBlelrPredict",
    "kBeqlrPredict", "kBgelrPredict", "kBgtlrPredict", "kBnllrPredict", "kBnelrPredict",
    "kBnglrPredict", "kBsolrPredict", "kBnslrPredict", "kBunlrPredict", "kBnulrPredict",
    "kBltctr", "kBlectr", "kBeqctr", "kBgectr", "kBgtctr", "kBnlctr", "kBnectr", "kBngctr",
    "kBsoctr", "kBnsctr", "kBunctr", "kBnuctr", "kBltctrPredict", "kBlectrPredict",
    "kBeqctrPredict", "kBgectrPredict", "kBgtctrPredict", "kBnlctrPredict", "kBnectrPredict",
    "kBngctrPredict", "kBsoctrPredict", "kBnsctrPredict", "kBunctrPredict", "kBnuctrPredict",
    "kCrset", "kCrclr", "kCrmove", "kCrnot", "kTwlt", "kTwlti", "kTwle", "kTwlei", "kTweq",
    "kTweqi", "kTwge", "kTwgei", "kTwgt", "kTwgti", "kTwnl", "kTwnli", "kTwne", "kTwnei", "kTwng",
    "kTwngi", "kTwllt", "kTwllti", "kTwlle", "kTwllei", "kTwlge", "kTwlgei", "kTwlgt", "kTwlgti",
    "kTwlnl", "kTwlnli", "kTwlng", "kTwlngi", "kTrap", "kMtxer", "kMfxer", "kMtlr", "kMflr",
    "kMtctr", "kMfctr", "kMtdsisr", "kMfdsisr", "kMtdar", "kMfdar", "kMtdec", "kMfdec", "kMtsdr1",
    "kMfsdr1", "kMtsrr0", "kMfsrr0", "kMtsrr1", "kMfsrr1", "kMtasr", "kMfasr", "kMtear", "kMfear",
    "kMttbl", "kMftbl", "kMttbu", "kMftbu", "kMtsprg", "kMfsprg", "kMtibatu", "kMfibatu",
    "kMtibatl", "kMfibatl", "kMtdbatu", "kMfdbatu", "kMtdbatl", "kMfdbatl", "kNop", "kLi", "kLis",
    "kLa", "kMr", "kNot", "kMtcr", "kMfspr", "kMftb", "kMtspr">>

\* static_cast<size_t>(base) of an enumerator of ExtendedGekkoMnemonic
ExtendedValue(base) ==
  (CHOOSE i \in 1..Len(ExtendedGekkoMnemonic) : ExtendedGekkoMnemonic[i] = base) - 1

\* parser tables
PSEUDO_TOKEN(mnemonic, base, variant_bits, alg) ==
  mnemonic :> [mnemonic_index |-> ExtendedValue(base) * kVariantPermutations + variant_bits,
               parse_algorithm |-> alg]
PLAIN_PSEUDO_TOKEN(mnemonic, base, alg) == PSEUDO_TOKEN(mnemonic, base, kPlainMnemonic, alg)
RC_PSEUDO_TOKEN(mnemonic, base, alg) ==
  PSEUDO_TOKEN(mnemonic, base, kPlainMnemonic, alg) @@
  PSEUDO_TOKEN(mnemonic \o ".", base, kRecordBit, alg)
OERC_PSEUDO_TOKEN(mnemonic, base, alg) ==
  PSEUDO_TOKEN(mnemonic, base, kPlainMnemonic, alg) @@
  PSEUDO_TOKEN(mnemonic \o ".", base, kRecordBit, alg) @@
  PSEUDO_TOKEN(mnemonic \o "o", base, kOverflowExceptionBit, alg) @@
  PSEUDO_TOKEN(mnemonic \o "o.", base, kRecordBit + kOverflowExceptionBit, alg)
LK_PSEUDO_TOKEN(mnemonic, base, alg) ==
  PSEUDO_TOKEN(mnemonic, base, kPlainMnemonic, alg) @@
  PSEUDO_TOKEN(mnemonic \o "l", base, kLinkBit, alg)
LKAA_PSEUDO_TOKEN(mnemonic, base, alg) ==
  PSEUDO_TOKEN(mnemonic, base, kPlainMnemonic, alg) @@
  PSEUDO_TOKEN(mnemonic \o "l", base, kLinkBit, alg) @@
  PSEUDO_TOKEN(mnemonic \o "a", base, kAbsoluteAddressBit, alg) @@
  PSEUDO_TOKEN(mnemonic \o "la", base, kLinkBit + kAbsoluteAddressBit, alg)

\* a std::map from its initializer list, every entry of which has another key
MapOf(entries) ==
  [key \in UNION {DOMAIN entries[i] : i \in 1..Len(entries)} |->
     entries[CHOOSE i \in 1..Len(entries) : key \in DOMAIN entries[i]][key]]

\* extended_mnemonic_tokens
extended_tokens ==
  MapOf(<<
  PLAIN_PSEUDO_TOKEN("subi", "kSubi", "Op3"), PLAIN_PSEUDO_TOKEN("subis", "kSubis", "Op3"),
  PLAIN_PSEUDO_TOKEN("subic", "kSubic", "Op3"),
  PLAIN_PSEUDO_TOKEN("subic.", "kSubicDot", "Op3"), OERC_PSEUDO_TOKEN("sub", "kSub", "Op3"),
  OERC_PSEUDO_TOKEN("subc", "kSubc", "Op3"), PLAIN_PSEUDO_TOKEN("cmpwi", "kCmpwi", "Op2Or3"),
  PLAIN_PSEUDO_TOKEN("cmpw", "kCmpw", "Op2Or3"),
  PLAIN_PSEUDO_TOKEN("cmplwi", "kCmplwi", "Op2Or3"),
  PLAIN_PSEUDO_TOKEN("cmplw", "kCmplw", "Op2Or3"),
  RC_PSEUDO_TOKEN("extlwi", "kExtlwi", "Op4"), RC_PSEUDO_TOKEN("extrwi", "kExtrwi", "Op4"),
  RC_PSEUDO_TOKEN("inslwi", "kInslwi", "Op4"), RC_PSEUDO_TOKEN("insrwi", "kInsrwi", "Op4"),
  RC_PSEUDO_TOKEN("rotlwi", "kRotlwi", "Op3"), RC_PSEUDO_TOKEN("rotrwi", "kRotrwi", "Op3"),
  RC_PSEUDO_TOKEN("rotlw", "kRotlw", "Op3"), RC_PSEUDO_TOKEN("slwi", "kSlwi", "Op3"),
  RC_PSEUDO_TOKEN("srwi", "kSrwi", "Op3"), RC_PSEUDO_TOKEN("clrlwi", "kClrlwi", "Op3"),
  RC_PSEUDO_TOKEN("clrrwi", "kClrrwi", "Op3"),
  RC_PSEUDO_TOKEN("clrlslwi", "kClrlslwi", "Op4"), LKAA_PSEUDO_TOKEN("bt", "kBt", "Op2"),
  LKAA_PSEUDO_TOKEN("bf", "kBf", "Op2"), LKAA_PSEUDO_TOKEN("bdnz", "kBdnz", "Op1"),
  LKAA_PSEUDO_TOKEN("bdnzt", "kBdnzt", "Op2"), LKAA_PSEUDO_TOKEN("bdnzf", "kBdnzf", "Op2"),
  LKAA_PSEUDO_TOKEN("bdz", "kBdz", "Op1"), LKAA_PSEUDO_TOKEN("bdzt", "kBdzt", "Op2"),
  LKAA_PSEUDO_TOKEN("bdzf", "kBdzf", "Op2"), LKAA_PSEUDO_TOKEN("bt-", "kBt", "Op2"),
  LKAA_PSEUDO_TOKEN("bf-", "kBf", "Op2"), LKAA_PSEUDO_TOKEN("bdnz-", "kBdnz", "Op1"),
  LKAA_PSEUDO_TOKEN("bdnzt-", "kBdnzt", "Op2"), LKAA_PSEUDO_TOKEN("bdnzf-", "kBdnzf", "Op2"),
  LKAA_PSEUDO_TOKEN("bdz-", "kBdz", "Op1"), LKAA_PSEUDO_TOKEN("bdzt-", "kBdzt", "Op2"),
  LKAA_PSEUDO_TOKEN("bdzf-", "kBdzf", "Op2"), LKAA_PSEUDO_TOKEN("bt+", "kBtPredict", "Op2"),
  LKAA_PSEUDO_TOKEN("bf+", "kBfPredict", "Op2"),
  LKAA_PSEUDO_TOKEN("bdnz+", "kBdnzPredict", "Op1"),
  LKAA_PSEUDO_TOKEN("bdnzt+", "kBdnztPredict", "Op2"),
  LKAA_PSEUDO_TOKEN("bdnzf+", "kBdnzfPredict", "Op2"),
  LKAA_PSEUDO_TOKEN("bdz+", "kBdzPredict", "Op1"),
  LKAA_PSEUDO_TOKEN("bdzt+", "kBdztPredict", "Op2"),
  LKAA_PSEUDO_TOKEN("bdzf+", "kBdzfPredict", "Op2"), LK_PSEUDO_TOKEN("blr", "kBlr", "None"),
  LK_PSEUDO_TOKEN("bctr", "kBctr", "None"), LK_PSEUDO_TOKEN("btlr", "kBtlr", "Op1"),
  LK_PSEUDO_TOKEN("btctr", "kBtctr", "Op1"), LK_PSEUDO_TOKEN("bflr", "kBflr", "Op1"),
  LK_PSEUDO_TOKEN("bfctr", "kBfctr", "Op1"), LK_PSEUDO_TOKEN("bdnzlr", "kBdnzlr", "None"),
  LK_PSEUDO_TOKEN("bdnztlr", "kBdnztlr", "Op1"),
  LK_PSEUDO_TOKEN("bdnzflr", "kBdnzflr", "Op1"), LK_PSEUDO_TOKEN("bdzlr", "kBdzlr", "None"),
  LK_PSEUDO_TOKEN("bdztlr", "kBdztlr", "Op1"), LK_PSEUDO_TOKEN("bdzflr", "kBdzflr", "Op1"),
  LK_PSEUDO_TOKEN("btlr-", "kBtlr", "Op1"), LK_PSEUDO_TOKEN("btctr-", "kBtctr", "Op1"),
  LK_PSEUDO_TOKEN("bflr-", "kBflr", "Op1"), LK_PSEUDO_TOKEN("bfctr-", "kBfctr", "Op1"),
  LK_PSEUDO_TOKEN("bdnzlr-", "kBdnzlr", "None"),
  LK_PSEUDO_TOKEN("bdnztlr-", "kBdnztlr", "Op1"),
  LK_PSEUDO_TOKEN("bdnzflr-", "kBdnzflr", "Op1"), LK_PSEUDO_TOKEN("bdzlr-", "kBdzlr", "None"),
  LK_PSEUDO_TOKEN("bdztlr-", "kBdztlr", "Op1"), LK_PSEUDO_TOKEN("bdzflr-", "kBdzflr", "Op1"),
  LK_PSEUDO_TOKEN("btlr+", "kBtlrPredict", "Op1"),
  LK_PSEUDO_TOKEN("btctr+", "kBtctrPredict", "Op1"),
  LK_PSEUDO_TOKEN("bflr+", "kBflrPredict", "Op1"),
  LK_PSEUDO_TOKEN("bfctr+", "kBfctrPredict", "Op1"),
  LK_PSEUDO_TOKEN("bdnzlr+", "kBdnzlrPredict", "None"),
  LK_PSEUDO_TOKEN("bdnztlr+", "kBdnztlrPredict", "Op1"),
  LK_PSEUDO_TOKEN("bdnzflr+", "kBdnzflrPredict", "Op1"),
  LK_PSEUDO_TOKEN("bdzlr+", "kBdzlrPredict", "None"),
  LK_PSEUDO_TOKEN("bdztlr+", "kBdztlrPredict", "Op1"),
  LK_PSEUDO_TOKEN("bdzflr+", "kBdzflrPredict", "Op1"),
  LKAA_PSEUDO_TOKEN("blt", "kBlt", "Op1Or2"), LKAA_PSEUDO_TOKEN("ble", "kBle", "Op1Or2"),
  LKAA_PSEUDO_TOKEN("beq", "kBeq", "Op1Or2"), LKAA_PSEUDO_TOKEN("bge", "kBge", "Op1Or2"),
  LKAA_PSEUDO_TOKEN("bgt", "kBgt", "Op1Or2"), LKAA_PSEUDO_TOKEN("bnl", "kBnl", "Op1Or2"),
  LKAA_PSEUDO_TOKEN("bne", "kBne", "Op1Or2"), LKAA_PSEUDO_TOKEN("bng", "kBng", "Op1Or2"),
  LKAA_PSEUDO_TOKEN("bso", "kBso", "Op1Or2"), LKAA_PSEUDO_TOKEN("bns", "kBns", "Op1Or2"),
  LKAA_PSEUDO_TOKEN("bun", "kBun", "Op1Or2"), LKAA_PSEUDO_TOKEN("bnu", "kBnu", "Op1Or2"),
  LKAA_PSEUDO_TOKEN("blt-", "kBlt", "Op1Or2"), LKAA_PSEUDO_TOKEN("ble-", "kBle", "Op1Or2"),
  LKAA_PSEUDO_TOKEN("beq-", "kBeq", "Op1Or2"), LKAA_PSEUDO_TOKEN("bge-", "kBge", "Op1Or2"),
  LKAA_PSEUDO_TOKEN("bgt-", "kBgt", "Op1Or2"), LKAA_PSEUDO_TOKEN("bnl-", "kBnl", "Op1Or2"),
  LKAA_PSEUDO_TOKEN("bne-", "kBne", "Op1Or2"), LKAA_PSEUDO_TOKEN("bng-", "kBng", "Op1Or2"),
  LKAA_PSEUDO_TOKEN("bso-", "kBso", "Op1Or2"), LKAA_PSEUDO_TOKEN("bns-", "kBns", "Op1Or2"),
  LKAA_PSEUDO_TOKEN("bun-", "kBun", "Op1Or2"), LKAA_PSEUDO_TOKEN("bnu-", "kBnu", "Op1Or2"),
  LKAA_PSEUDO_TOKEN("blt+", "kBltPredict", "Op1Or2"),
  LKAA_PSEUDO_TOKEN("ble+", "kBlePredict", "Op1Or2"),
  LKAA_PSEUDO_TOKEN("beq+", "kBeqPredict", "Op1Or2"),
  LKAA_PSEUDO_TOKEN("bge+", "kBgePredict", "Op1Or2"),
  LKAA_PSEUDO_TOKEN("bgt+", "kBgtPredict", "Op1Or2"),
  LKAA_PSEUDO_TOKEN("bnl+", "kBnlPredict", "Op1Or2"),
  LKAA_PSEUDO_TOKEN("bne+", "kBnePredict", "Op1Or2"),
  LKAA_PSEUDO_TOKEN("bng+", "kBngPredict", "Op1Or2"),
  LKAA_PSEUDO_TOKEN("bso+", "kBsoPredict", "Op1Or2"),
  LKAA_PSEUDO_TOKEN("bns+", "kBnsPredict", "Op1Or2"),
  LKAA_PSEUDO_TOKEN("bun+", "kBunPredict", "Op1Or2"),
  LKAA_PSEUDO_TOKEN("bnu+", "kBnuPredict", "Op1Or2"),
  LK_PSEUDO_TOKEN("bltlr", "kBltlr", "NoneOrOp1"),
  LK_PSEUDO_TOKEN("bltctr", "kBltctr", "NoneOrOp1"),
  LK_PSEUDO_TOKEN("blelr", "kBlelr", "NoneOrOp1"),
  LK_PSEUDO_TOKEN("blectr", "kBlectr", "NoneOrOp1"),
  LK_PSEUDO_TOKEN("beqlr", "kBeqlr", "NoneOrOp1"),
  LK_PSEUDO_TOKEN("beqctr", "kBeqctr", "NoneOrOp1"),
  LK_PSEUDO_TOKEN("bgelr", "kBgelr", "NoneOrOp1"),
  LK_PSEUDO_TOKEN("bgectr", "kBgectr", "NoneOrOp1"),
  LK_PSEUDO_TOKEN("bgtlr", "kBgtlr", "NoneOrOp1"),
  LK_PSEUDO_TOKEN("bgtctr", "kBgtctr", "NoneOrOp1"),
  LK_PSEUDO_TOKEN("bnllr", "kBnllr", "NoneOrOp1"),
  LK_PSEUDO_TOKEN("bnlctr", "kBnlctr", "NoneOrOp1"),
  LK_PSEUDO_TOKEN("bnelr", "kBnelr", "NoneOrOp1"),
  LK_PSEUDO_TOKEN("bnectr", "kBnectr", "NoneOrOp1"),
  LK_PSEUDO_TOKEN("bnglr", "kBnglr", "NoneOrOp1"),
  LK_PSEUDO_TOKEN("bngctr", "kBngctr", "NoneOrOp1"),
  LK_PSEUDO_TOKEN("bsolr", "kBsolr", "NoneOrOp1"),
  LK_PSEUDO_TOKEN("bsoctr", "kBsoctr", "NoneOrOp1"),
  LK_PSEUDO_TOKEN("bnslr", "kBnslr", "NoneOrOp1"),
  LK_PSEUDO_TOKEN("bnsctr", "kBnsctr", "NoneOrOp1"),
  LK_PSEUDO_TOKEN("bunlr", "kBunlr", "NoneOrOp1"),
  LK_PSEUDO_TOKEN("bunctr", "kBunctr", "NoneOrOp1"),
  LK_PSEUDO_TOKEN("bnulr", "kBnulr", "NoneOrOp1"),
  LK_PSEUDO_TOKEN("bnuctr", "kBnuctr", "NoneOrOp1"),
  LK_PSEUDO_TOKEN("bltlr-", "kBltlr", "NoneOrOp1"),
  LK_PSEUDO_TOKEN("bltctr-", "kBltctr", "NoneOrOp1"),
  LK_PSEUDO_TOKEN("blelr-", "kBlelr", "NoneOrOp1"),
  LK_PSEUDO_TOKEN("blectr-", "kBlectr", "NoneOrOp1"),
  LK_PSEUDO_TOKEN("beqlr-", "kBeqlr", "NoneOrOp1"),
  LK_PSEUDO_TOKEN("beqctr-", "kBeqctr", "NoneOrOp1"),
  LK_PSEUDO_TOKEN("bgelr-", "kBgelr", "NoneOrOp1"),
  LK_PSEUDO_TOKEN("bgectr-", "kBgectr", "NoneOrOp1"),
  LK_PSEUDO_TOKEN("bgtlr-", "kBgtlr", "NoneOrOp1"),
  LK_PSEUDO_TOKEN("bgtctr-", "kBgtctr", "NoneOrOp1"),
  LK_PSEUDO_TOKEN("bnllr-", "kBnllr", "NoneOrOp1"),
  LK_PSEUDO_TOKEN("bnlctr-", "kBnlctr", "NoneOrOp1"),
  LK_PSEUDO_TOKEN("bnelr-", "kBnelr", "NoneOrOp1"),
  LK_PSEUDO_TOKEN("bnectr-", "kBnectr", "NoneOrOp1"),
  LK_PSEUDO_TOKEN("bnglr-", "kBnglr", "NoneOrOp1"),
  LK_PSEUDO_TOKEN("bngctr-", "kBngctr", "NoneOrOp1"),
  LK_PSEUDO_TOKEN("bsolr-", "kBsolr", "NoneOrOp1"),
  LK_PSEUDO_TOKEN("bsoctr-", "kBsoctr", "NoneOrOp1"),
  LK_PSEUDO_TOKEN("bnslr-", "kBnslr", "NoneOrOp1"),
  LK_PSEUDO_TOKEN("bnsctr-", "kBnsctr", "NoneOrOp1"),
  LK_PSEUDO_TOKEN("bunlr-", "kBunlr", "NoneOrOp1"),
  LK_PSEUDO_TOKEN("bunctr-", "kBunctr", "NoneOrOp1"),
  LK_PSEUDO_TOKEN("bnulr-", "kBnulr", "NoneOrOp1"),
  LK_PSEUDO_TOKEN("bnuctr-", "kBnuctr", "NoneOrOp1"),
  LK_PSEUDO_TOKEN("bltlr+", "kBltlrPredict", "NoneOrOp1"),
  LK_PSEUDO_TOKEN("bltctr+", "kBltctrPredict", "NoneOrOp1"),
  LK_PSEUDO_TOKEN("blelr+", "kBlelrPredict", "NoneOrOp1"),
  LK_PSEUDO_TOKEN("blectr+", "kBlectrPredict", "NoneOrOp1"),
  LK_PSEUDO_TOKEN("beqlr+", "kBeqlrPredict", "NoneOrOp1"),
  LK_PSEUDO_TOKEN("beqctr+", "kBeqctrPredict", "NoneOrOp1"),
  LK_PSEUDO_TOKEN("bgelr+", "kBgelrPredict", "NoneOrOp1"),
  LK_PSEUDO_TOKEN("bgectr+", "kBgectrPredict", "NoneOrOp1"),
  LK_PSEUDO_TOKEN("bgtlr+", "kBgtlrPredict", "NoneOrOp1"),
  LK_PSEUDO_TOKEN("bgtctr+", "kBgtctrPredict", "NoneOrOp1"),
  LK_PSEUDO_TOKEN("bnllr+", "kBnllrPredict", "NoneOrOp1"),
  LK_PSEUDO_TOKEN("bnlctr+", "kBnlctrPredict", "NoneOrOp1"),
  LK_PSEUDO_TOKEN("bnelr+", "kBnelrPredict", "NoneOrOp1"),
  LK_PSEUDO_TOKEN("bnectr+", "kBnectrPredict", "NoneOrOp1"),
  LK_PSEUDO_TOKEN("bnglr+", "kBnglrPredict", "NoneOrOp1"),
  LK_PSEUDO_TOKEN("bngctr+", "kBngctrPredict", "NoneOrOp1"),
  LK_PSEUDO_TOKEN("bsolr+", "kBsolrPredict", "NoneOrOp1"),
  LK_PSEUDO_TOKEN("bsoctr+", "kBsoctrPredict", "NoneOrOp1"),
  LK_PSEUDO_TOKEN("bnslr+", "kBnslrPredict", "NoneOrOp1"),
  LK_PSEUDO_TOKEN("bnsctr+", "kBnsctrPredict", "NoneOrOp1"),
  LK_PSEUDO_TOKEN("bunlr+", "kBunlrPredict", "NoneOrOp1"),
  LK_PSEUDO_TOKEN("bunctr+", "kBunctrPredict", "NoneOrOp1"),
  LK_PSEUDO_TOKEN("bnulr+", "kBnulrPredict", "NoneOrOp1"),
  LK_PSEUDO_TOKEN("bnuctr+", "kBnuctrPredict", "NoneOrOp1"),
  PLAIN_PSEUDO_TOKEN("crset", "kCrset", "Op1"), PLAIN_PSEUDO_TOKEN("crclr", "kCrclr", "Op1"),
  PLAIN_PSEUDO_TOKEN("crmove", "kCrmove", "Op2"),
  PLAIN_PSEUDO_TOKEN("crnot", "kCrnot", "Op2"), PLAIN_PSEUDO_TOKEN("twlt", "kTwlt", "Op2"),
  PLAIN_PSEUDO_TOKEN("twlti", "kTwlti", "Op2"), PLAIN_PSEUDO_TOKEN("twle", "kTwle", "Op2"),
  PLAIN_PSEUDO_TOKEN("twlei", "kTwlei", "Op2"), PLAIN_PSEUDO_TOKEN("tweq", "kTweq", "Op2"),
  PLAIN_PSEUDO_TOKEN("tweqi", "kTweqi", "Op2"), PLAIN_PSEUDO_TOKEN("twge", "kTwge", "Op2"),
  PLAIN_PSEUDO_TOKEN("twgei", "kTwgei", "Op2"), PLAIN_PSEUDO_TOKEN("twgt", "kTwgt", "Op2"),
  PLAIN_PSEUDO_TOKEN("twgti", "kTwgti", "Op2"), PLAIN_PSEUDO_TOKEN("twnl", "kTwnl", "Op2"),
  PLAIN_PSEUDO_TOKEN("twnli", "kTwnli", "Op2"), PLAIN_PSEUDO_TOKEN("twne", "kTwne", "Op2"),
  PLAIN_PSEUDO_TOKEN("twnei", "kTwnei", "Op2"), PLAIN_PSEUDO_TOKEN("twng", "kTwng", "Op2"),
  PLAIN_PSEUDO_TOKEN("twngi", "kTwngi", "Op2"), PLAIN_PSEUDO_TOKEN("twllt", "kTwllt", "Op2"),
  PLAIN_PSEUDO_TOKEN("twllti", "kTwllti", "Op2"),
  PLAIN_PSEUDO_TOKEN("twlle", "kTwlle", "Op2"),
  PLAIN_PSEUDO_TOKEN("twllei", "kTwllei", "Op2"),
  PLAIN_PSEUDO_TOKEN("twlge", "kTwlge", "Op2"),
  PLAIN_PSEUDO_TOKEN("twlgei", "kTwlgei", "Op2"),
  PLAIN_PSEUDO_TOKEN("twlgt", "kTwlgt", "Op2"),
  PLAIN_PSEUDO_TOKEN("twlgti", "kTwlgti", "Op2"),
  PLAIN_PSEUDO_TOKEN("twlnl", "kTwlnl", "Op2"),
  PLAIN_PSEUDO_TOKEN("twlnli", "kTwlnli", "Op2"),
  PLAIN_PSEUDO_TOKEN("twlng", "kTwlng", "Op2"),
  PLAIN_PSEUDO_TOKEN("twlngi", "kTwlngi", "Op2"), PLAIN_PSEUDO_TOKEN("trap", "kTrap", "None"),
  PLAIN_PSEUDO_TOKEN("mtxer", "kMtxer", "Op1"), PLAIN_PSEUDO_TOKEN("mfxer", "kMfxer", "Op1"),
  PLAIN_PSEUDO_TOKEN("mtlr", "kMtlr", "Op1"), PLAIN_PSEUDO_TOKEN("mflr", "kMflr", "Op1"),
  PLAIN_PSEUDO_TOKEN("mtctr", "kMtctr", "Op1"), PLAIN_PSEUDO_TOKEN("mfctr", "kMfctr", "Op1"),
  PLAIN_PSEUDO_TOKEN("mtdsisr", "kMtdsisr", "Op1"),
  PLAIN_PSEUDO_TOKEN("mfdsisr", "kMfdsisr", "Op1"),
  PLAIN_PSEUDO_TOKEN("mtdar", "kMtdar", "Op1"), PLAIN_PSEUDO_TOKEN("mfdar", "kMfdar", "Op1"),
  PLAIN_PSEUDO_TOKEN("mtdec", "kMtdec", "Op1"), PLAIN_PSEUDO_TOKEN("mfdec", "kMfdec", "Op1"),
  PLAIN_PSEUDO_TOKEN("mtsdr1", "kMtsdr1", "Op1"),
  PLAIN_PSEUDO_TOKEN("mfsdr1", "kMfsdr1", "Op1"),
  PLAIN_PSEUDO_TOKEN("mtsrr0", "kMtsrr0", "Op1"),
  PLAIN_PSEUDO_TOKEN("mfsrr0", "kMfsrr0", "Op1"),
  PLAIN_PSEUDO_TOKEN("mtsrr1", "kMtsrr1", "Op1"),
  PLAIN_PSEUDO_TOKEN("mfsrr1", "kMfsrr1", "Op1"),
  PLAIN_PSEUDO_TOKEN("mtasr", "kMtasr", "Op1"), PLAIN_PSEUDO_TOKEN("mfasr", "kMfasr", "Op1"),
  PLAIN_PSEUDO_TOKEN("mtear", "kMtear", "Op1"), PLAIN_PSEUDO_TOKEN("mfear", "kMfear", "Op1"),
  PLAIN_PSEUDO_TOKEN("mttbl", "kMttbl", "Op1"), PLAIN_PSEUDO_TOKEN("mftbl", "kMftb", "Op1"),
  PLAIN_PSEUDO_TOKEN("mttbu", "kMttbu", "Op1"), PLAIN_PSEUDO_TOKEN("mftbu", "kMftbu", "Op1"),
  PLAIN_PSEUDO_TOKEN("mtsprg", "kMtsprg", "Op2"),
  PLAIN_PSEUDO_TOKEN("mfsprg", "kMfsprg", "Op2"),
  PLAIN_PSEUDO_TOKEN("mtibatu", "kMtibatu", "Op2"),
  PLAIN_PSEUDO_TOKEN("mfibatu", "kMfibatu", "Op2"),
  PLAIN_PSEUDO_TOKEN("mtibatl", "kMtibatl", "Op2"),
  PLAIN_PSEUDO_TOKEN("mfibatl", "kMfibatl", "Op2"),
  PLAIN_PSEUDO_TOKEN("mtdbatu", "kMtdbatu", "Op2"),
  PLAIN_PSEUDO_TOKEN("mfdbatu", "kMfdbatu", "Op2"),
  PLAIN_PSEUDO_TOKEN("mtdbatl", "kMtdbatl", "Op2"),
  PLAIN_PSEUDO_TOKEN("mfdbatl", "kMfdbatl", "Op2"), PLAIN_PSEUDO_TOKEN("nop", "kNop", "None"),
  PLAIN_PSEUDO_TOKEN("li", "kLi", "Op2"), PLAIN_PSEUDO_TOKEN("lis", "kLis", "Op2"),
  PLAIN_PSEUDO_TOKEN("la", "kLa", "Op1Off1"), RC_PSEUDO_TOKEN("mr", "kMr", "Op2"),
  RC_PSEUDO_TOKEN("not", "kNot", "Op2"), PLAIN_PSEUDO_TOKEN("mtcr", "kMtcr", "Op1"),
  PLAIN_PSEUDO_TOKEN("mfspr", "kMfspr", "Op2"), PLAIN_PSEUDO_TOKEN("mftb", "kMftb", "Op2"),
  PLAIN_PSEUDO_TOKEN("mtspr", "kMtspr", "Op2")
  >>)

\* OperandList: list[0 .. kMaxOperands - 1], count, overfill.  Copy fills it
\* with the parsed operands.
ParsedNames == <<"parsed 0", "parsed 1", "parsed 2", "parsed 3", "parsed 4">>
Copy(n) ==
  [list |-> [i \in 0..(kMaxOperands - 1) |-> IF i < n THEN ParsedNames[i + 1] ELSE ""],
   count |-> IF n < kMaxOperands THEN n ELSE kMaxOperands,
   overfill |-> n > kMaxOperands]

\* the loop of OperandList::Insert
RECURSIVE InsertLoop(_, _, _, _)
InsertLoop(list, before, i, count) ==
  IF i <= count /\ i < kMaxOperands
  THEN InsertLoop([list EXCEPT ![i] = list[before], ![before] = list[i]], before, i + 1, count)
  ELSE list

Insert(operands, before, val) ==
  LET overfill == operands.count = kMaxOperands
  IN [list |-> [InsertLoop(operands.list, before, before + 1, operands.count)
                  EXCEPT ![before] = val],
      count |-> IF overfill THEN operands.count ELSE operands.count + 1,
      overfill |-> overfill]

\* operands[index] = val
Assign(operands, index, val) == [operands EXCEPT !.list[index] = val]

\* the operand translators
negate_SIMM(operands) == Assign(operands, 2, "-operands[2]")
swap_ops_1_2(operands) ==
  Assign(Assign(Assign(operands, 2, "operands[2] ^ operands[1]"),
                1, "operands[1] ^ operands[2]"),
         2, "operands[2] ^ operands[1]")
set_compare_word_mode(operands) ==
  Insert(IF operands.count = 2 THEN Insert(operands, 0, "0") ELSE operands, 1, "0")
fill_bo_bi(operands) == Insert(Insert(operands, 0, "BO"), 1, "BI")
bitswap_idx(operands, Idx) == Assign(operands, Idx, "spr_bitswap(operands[Idx])")
fill_bo_bicond(operands, ParamCount) ==
  LET filled == IF operands.count < ParamCount THEN Insert(operands, 0, "0") ELSE operands
  IN Insert(Assign(filled, 0, "(operands[0] << 2) | Cond"), 0, "BO")
fill_bo(operands) == Insert(operands, 0, "BO")
trap_set_TO(operands) == Insert(operands, 0, "TO")
fill_mtspr(operands) == Insert(operands, 0, "SPRG")
fill_mfspr(operands) == Insert(operands, 1, "SPRG")
fill_mtspr_bat(operands) == Insert(operands, 0, "2 * operands[0] + SPRG")
fill_mfspr_bat(operands) == Insert(operands, 1, "2 * operands[1] + SPRG")

spr_bitswap(spr) == ((spr % 32) * 32) + ((spr \div 32) % 32)

\* a callback of the table: a translator with its template arguments, or a
\* lambda with its statements
Fn(f, t) == [f |-> f, t |-> t, body |-> <<>>]
Ins(before, val) == [op |-> "Insert", at |-> before, val |-> val]
Set(index, val) == [op |-> "Assign", at |-> index, val |-> val]
Lambda(body) == [f |-> "lambda", t |-> <<>>, body |-> body]

RECURSIVE RunLambda(_, _, _)
RunLambda(body, i, operands) ==
  IF i > Len(body) THEN operands
  ELSE RunLambda(body, i + 1,
                 IF body[i].op = "Insert" THEN Insert(operands, body[i].at, body[i].val)
                 ELSE Assign(operands, body[i].at, body[i].val))

\* (*transform_operands)(operands)
transform_operands(cb, operands) ==
  CASE cb.f = "negate_SIMM" -> negate_SIMM(operands)
    [] cb.f = "swap_ops_1_2" -> swap_ops_1_2(operands)
    [] cb.f = "set_compare_word_mode" -> set_compare_word_mode(operands)
    [] cb.f = "fill_bo_bi" -> fill_bo_bi(operands)
    [] cb.f = "bitswap_idx" -> bitswap_idx(operands, cb.t[1])
    [] cb.f = "fill_bo_bicond" -> fill_bo_bicond(operands, cb.t[3])
    [] cb.f = "fill_bo" -> fill_bo(operands)
    [] cb.f = "trap_set_TO" -> trap_set_TO(operands)
    [] cb.f = "fill_mtspr" -> fill_mtspr(operands)
    [] cb.f = "fill_mfspr" -> fill_mfspr(operands)
    [] cb.f = "fill_mtspr_bat" -> fill_mtspr_bat(operands)
    [] cb.f = "fill_mfspr_bat" -> fill_mfspr_bat(operands)
    [] cb.f = "lambda" -> RunLambda(cb.body, 1, operands)

\* assembler tables; the key of the base mnemonic is kept as the pair of its
\* enumerator and its variant bits
PSEUDO(base, variant_bits, cb) ==
  [mnemonic_index |-> [mnemonic |-> base, variant |-> variant_bits], transform_operands |-> cb]
kInvalidExtMnemonic ==
  [mnemonic_index |-> [mnemonic |-> "", variant |-> 0], transform_operands |-> Fn("nullptr", <<>>)]
PLAIN_PSEUDO(base, cb) ==
  <<PSEUDO(base, kPlainMnemonic, cb), kInvalidExtMnemonic, kInvalidExtMnemonic,
    kInvalidExtMnemonic>>
RC_PSEUDO(base, cb) ==
  <<PSEUDO(base, kPlainMnemonic, cb), PSEUDO(base, kRecordBit, cb), kInvalidExtMnemonic,
    kInvalidExtMnemonic>>
OERC_PSEUDO(base, cb) ==
  <<PSEUDO(base, kPlainMnemonic, cb), PSEUDO(base, kRecordBit, cb),
    PSEUDO(base, kOverflowExceptionBit, cb),
    PSEUDO(base, kRecordBit + kOverflowExceptionBit, cb)>>
LK_PSEUDO(base, cb) ==
  <<PSEUDO(base, kPlainMnemonic, cb), PSEUDO(base, kLinkBit, cb), kInvalidExtMnemonic,
    kInvalidExtMnemonic>>
LKAA_PSEUDO(base, cb) ==
  <<PSEUDO(base, kPlainMnemonic, cb), PSEUDO(base, kLinkBit, cb),
    PSEUDO(base, kAbsoluteAddressBit, cb), PSEUDO(base, kLinkBit + kAbsoluteAddressBit, cb)>>

\* a std::array from the rows of its initializer, each of them the
\* kVariantPermutations descriptors of one mnemonic
ArrayOf(rows) ==
  [i \in 1..(kVariantPermutations * Len(rows)) |->
     rows[((i - 1) \div kVariantPermutations) + 1][((i - 1) % kVariantPermutations) + 1]]

extended_mnemonics ==
  ArrayOf(<<
  PLAIN_PSEUDO("kAddi", Fn("negate_SIMM", <<>>)),
  PLAIN_PSEUDO("kAddis", Fn("negate_SIMM", <<>>)),
  PLAIN_PSEUDO("kAddic", Fn("negate_SIMM", <<>>)),
  PLAIN_PSEUDO("kAddicDot", Fn("negate_SIMM", <<>>)),
  OERC_PSEUDO("kSubf", Fn("swap_ops_1_2", <<>>)),
  OERC_PSEUDO("kSubfc", Fn("swap_ops_1_2", <<>>)),
  PLAIN_PSEUDO("kCmpi", Fn("set_compare_word_mode", <<>>)),
  PLAIN_PSEUDO("kCmp", Fn("set_compare_word_mode", <<>>)),
  PLAIN_PSEUDO("kCmpli", Fn("set_compare_word_mode", <<>>)),
  PLAIN_PSEUDO("kCmpl", Fn("set_compare_word_mode", <<>>)),
  RC_PSEUDO("kRlwinm", Lambda(<<Set(2, "b"), Set(3, "0"), Ins(4, "n - 1")>>)),
  RC_PSEUDO("kRlwinm", Lambda(<<Set(2, "b + n"), Set(3, "32 - n"), Ins(4, "31")>>)),
  RC_PSEUDO("kRlwimi", Lambda(<<Set(2, "32 - b"), Set(3, "b"), Ins(4, "b + n - 1")>>)),
  RC_PSEUDO("kRlwimi", Lambda(<<Set(2, "32 - (b + n)"), Set(3, "b"), Ins(4, "b + n - 1")>>)),
  RC_PSEUDO("kRlwinm", Lambda(<<Ins(3, "0"), Ins(4, "31")>>)),
  RC_PSEUDO("kRlwinm", Lambda(<<Set(2, "32 - n"), Ins(3, "0"), Ins(4, "31")>>)),
  RC_PSEUDO("kRlwnm", Lambda(<<Ins(3, "0"), Ins(4, "31")>>)),
  RC_PSEUDO("kRlwinm", Lambda(<<Ins(3, "0"), Ins(4, "31 - n")>>)),
  RC_PSEUDO("kRlwinm", Lambda(<<Set(2, "32 - n"), Ins(3, "n"), Ins(4, "31")>>)),
  RC_PSEUDO("kRlwinm", Lambda(<<Set(2, "0"), Ins(3, "n"), Ins(4, "31")>>)),
  RC_PSEUDO("kRlwinm", Lambda(<<Set(2, "0"), Ins(3, "0"), Ins(4, "31 - n")>>)),
  RC_PSEUDO("kRlwinm", Lambda(<<Set(2, "n"), Set(3, "b - n"), Ins(4, "31 - n")>>)),
  LKAA_PSEUDO("kBc", Fn("fill_bo", <<12>>)),
  LKAA_PSEUDO("kBc", Fn("fill_bo", <<4>>)),
  LKAA_PSEUDO("kBc", Fn("fill_bo_bi", <<16, 0>>)),
  LKAA_PSEUDO("kBc", Fn("fill_bo", <<8>>)),
  LKAA_PSEUDO("kBc", Fn("fill_bo", <<0>>)),
  LKAA_PSEUDO("kBc", Fn("fill_bo_bi", <<18, 0>>)),
  LKAA_PSEUDO("kBc", Fn("fill_bo", <<10>>)),
  LKAA_PSEUDO("kBc", Fn("fill_bo", <<2>>)),
  LKAA_PSEUDO("kBc", Fn("fill_bo", <<13>>)),
  LKAA_PSEUDO("kBc", Fn("fill_bo", <<5>>)),
  LKAA_PSEUDO("kBc", Fn("fill_bo_bi", <<17, 0>>)),
  LKAA_PSEUDO("kBc", Fn("fill_bo", <<9>>)),
  LKAA_PSEUDO("kBc", Fn("fill_bo", <<1>>)),
  LKAA_PSEUDO("kBc", Fn("fill_bo_bi", <<19, 0>>)),
  LKAA_PSEUDO("kBc", Fn("fill_bo", <<11>>)),
  LKAA_PSEUDO("kBc", Fn("fill_bo", <<3>>)),
  LK_PSEUDO("kBclr", Fn("fill_bo_bi", <<20, 0>>)),
  LK_PSEUDO("kBclr", Fn("fill_bo", <<12>>)),
  LK_PSEUDO("kBclr", Fn("fill_bo", <<4>>)),
  LK_PSEUDO("kBclr", Fn("fill_bo_bi", <<16, 0>>)),
  LK_PSEUDO("kBclr", Fn("fill_bo", <<8>>)),
  LK_PSEUDO("kBclr", Fn("fill_bo", <<0>>)),
  LK_PSEUDO("kBclr", Fn("fill_bo_bi", <<18, 0>>)),
  LK_PSEUDO("kBclr", Fn("fill_bo", <<10>>)),
  LK_PSEUDO("kBclr", Fn("fill_bo", <<2>>)),
  LK_PSEUDO("kBclr", Fn("fill_bo", <<13>>)),
  LK_PSEUDO("kBclr", Fn("fill_bo", <<5>>)),
  LK_PSEUDO("kBclr", Fn("fill_bo_bi", <<17, 0>>)),
  LK_PSEUDO("kBclr", Fn("fill_bo", <<9>>)),
  LK_PSEUDO("kBclr", Fn("fill_bo", <<1>>)),
  LK_PSEUDO("kBclr", Fn("fill_bo_bi", <<19, 0>>)),
  LK_PSEUDO("kBclr", Fn("fill_bo", <<11>>)),
  LK_PSEUDO("kBclr", Fn("fill_bo", <<3>>)),
  LK_PSEUDO("kBcctr", Fn("fill_bo_bi", <<20, 0>>)),
  LK_PSEUDO("kBcctr", Fn("fill_bo", <<12>>)),
  LK_PSEUDO("kBcctr", Fn("fill_bo", <<4>>)),
  LK_PSEUDO("kBcctr", Fn("fill_bo", <<13>>)),
  LK_PSEUDO("kBcctr", Fn("fill_bo", <<5>>)),
  LKAA_PSEUDO("kBc", Fn("fill_bo_bicond", <<12, 0, 2>>)),
  LKAA_PSEUDO("kBc", Fn("fill_bo_bicond", <<4, 1, 2>>)),
  LKAA_PSEUDO("kBc", Fn("fill_bo_bicond", <<12, 2, 2>>)),
  LKAA_PSEUDO("kBc", Fn("fill_bo_bicond", <<4, 0, 2>>)),
  LKAA_PSEUDO("kBc", Fn("fill_bo_bicond", <<12, 1, 2>>)),
  LKAA_PSEUDO("kBc", Fn("fill_bo_bicond", <<4, 0, 2>>)),
  LKAA_PSEUDO("kBc", Fn("fill_bo_bicond", <<4, 2, 2>>)),
  LKAA_PSEUDO("kBc", Fn("fill_bo_bicond", <<4, 1, 2>>)),
  LKAA_PSEUDO("kBc", Fn("fill_bo_bicond", <<12, 3, 2>>)),
  LKAA_PSEUDO("kBc", Fn("fill_bo_bicond", <<4, 3, 2>>)),
  LKAA_PSEUDO("kBc", Fn("fill_bo_bicond", <<12, 3, 2>>)),
  LKAA_PSEUDO("kBc", Fn("fill_bo_bicond", <<4, 3, 2>>)),
  LKAA_PSEUDO("kBc", Fn("fill_bo_bicond", <<13, 0, 2>>)),
  LKAA_PSEUDO("kBc", Fn("fill_bo_bicond", <<5, 1, 2>>)),
  LKAA_PSEUDO("kBc", Fn("fill_bo_bicond", <<13, 2, 2>>)),
  LKAA_PSEUDO("kBc", Fn("fill_bo_bicond", <<5, 0, 2>>)),
  LKAA_PSEUDO("kBc", Fn("fill_bo_bicond", <<13, 1, 2>>)),
  LKAA_PSEUDO("kBc", Fn("fill_bo_bicond", <<5, 0, 2>>)),
  LKAA_PSEUDO("kBc", Fn("fill_bo_bicond", <<5, 2, 2>>)),
  LKAA_PSEUDO("kBc", Fn("fill_bo_bicond", <<5, 1, 2>>)),
  LKAA_PSEUDO("kBc", Fn("fill_bo_bicond", <<13, 3, 2>>)),
  LKAA_PSEUDO("kBc", Fn("fill_bo_bicond", <<5, 3, 2>>)),
  LKAA_PSEUDO("kBc", Fn("fill_bo_bicond", <<13, 3, 2>>)),
  LKAA_PSEUDO("kBc", Fn("fill_bo_bicond", <<5, 3, 2>>)),
  LK_PSEUDO("kBclr", Fn("fill_bo_bicond", <<12, 0, 1>>)),
  LK_PSEUDO("kBclr", Fn("fill_bo_bicond", <<4, 1, 1>>)),
  LK_PSEUDO("kBclr", Fn("fill_bo_bicond", <<12, 2, 1>>)),
  LK_PSEUDO("kBclr", Fn("fill_bo_bicond", <<4, 0, 1>>)),
  LK_PSEUDO("kBclr", Fn("fill_bo_bicond", <<12, 1, 1>>)),
  LK_PSEUDO("kBclr", Fn("fill_bo_bicond", <<4, 0, 1>>)),
  LK_PSEUDO("kBclr", Fn("fill_bo_bicond", <<4, 2, 1>>)),
  LK_PSEUDO("kBclr", Fn("fill_bo_bicond", <<4, 1, 1>>)),
  LK_PSEUDO("kBclr", Fn("fill_bo_bicond", <<12, 3, 1>>)),
  LK_PSEUDO("kBclr", Fn("fill_bo_bicond", <<4, 3, 1>>)),
  LK_PSEUDO("kBclr", Fn("fill_bo_bicond", <<12, 3, 1>>)),
  LK_PSEUDO("kBclr", Fn("fill_bo_bicond", <<4, 3, 1>>)),
  LK_PSEUDO("kBclr", Fn("fill_bo_bicond", <<13, 0, 1>>)),
  LK_PSEUDO("kBclr", Fn("fill_bo_bicond", <<5, 1, 1>>)),
  LK_PSEUDO("kBclr", Fn("fill_bo_bicond", <<13, 2, 1>>)),
  LK_PSEUDO("kBclr", Fn("fill_bo_bicond", <<5, 0, 1>>)),
  LK_PSEUDO("kBclr", Fn("fill_bo_bicond", <<13, 1, 1>>)),
  LK_PSEUDO("kBclr", Fn("fill_bo_bicond", <<5, 0, 1>>)),
  LK_PSEUDO("kBclr", Fn("fill_bo_bicond", <<5, 2, 1>>)),
  LK_PSEUDO("kBclr", Fn("fill_bo_bicond", <<5, 1, 1>>)),
  LK_PSEUDO("kBclr", Fn("fill_bo_bicond", <<13, 3, 1>>)),
  LK_PSEUDO("kBclr", Fn("fill_bo_bicond", <<5, 3, 1>>)),
  LK_PSEUDO("kBclr", Fn("fill_bo_bicond", <<13, 3, 1>>)),
  LK_PSEUDO("kBclr", Fn("fill_bo_bicond", <<5, 3, 1>>)),
  LK_PSEUDO("kBcctr", Fn("fill_bo_bicond", <<12, 0, 1>>)),
  LK_PSEUDO("kBcctr", Fn("fill_bo_bicond", <<4, 1, 1>>)),
  LK_PSEUDO("kBcctr", Fn("fill_bo_bicond", <<12, 2, 1>>)),
  LK_PSEUDO("kBcctr", Fn("fill_bo_bicond", <<4, 0, 1>>)),
  LK_PSEUDO("kBcctr", Fn("fill_bo_bicond", <<12, 1, 1>>)),
  LK_PSEUDO("kBcctr", Fn("fill_bo_bicond", <<4, 0, 1>>)),
  LK_PSEUDO("kBcctr", Fn("fill_bo_bicond", <<4, 2, 1>>)),
  LK_PSEUDO("kBcctr", Fn("fill_bo_bicond", <<4, 1, 1>>)),
  LK_PSEUDO("kBcctr", Fn("fill_bo_bicond", <<12, 3, 1>>)),
  LK_PSEUDO("kBcctr", Fn("fill_bo_bicond", <<4, 3, 1>>)),
  LK_PSEUDO("kBcctr", Fn("fill_bo_bicond", <<12, 3, 1>>)),
  LK_PSEUDO("kBcctr", Fn("fill_bo_bicond", <<4, 3, 1>>)),
  LK_PSEUDO("kBcctr", Fn("fill_bo_bicond", <<13, 0, 1>>)),
  LK_PSEUDO("kBcctr", Fn("fill_bo_bicond", <<5, 1, 1>>)),
  LK_PSEUDO("kBcctr", Fn("fill_bo_bicond", <<13, 2, 1>>)),
  LK_PSEUDO("kBcctr", Fn("fill_bo_bicond", <<5, 0, 1>>)),
  LK_PSEUDO("kBcctr", Fn("fill_bo_bicond", <<13, 1, 1>>)),
  LK_PSEUDO("kBcctr", Fn("fill_bo_bicond", <<5, 0, 1>>)),
  LK_PSEUDO("kBcctr", Fn("fill_bo_bicond", <<5, 2, 1>>)),
  LK_PSEUDO("kBcctr", Fn("fill_bo_bicond", <<5, 1, 1>>)),
  LK_PSEUDO("kBcctr", Fn("fill_bo_bicond", <<13, 3, 1>>)),
  LK_PSEUDO("kBcctr", Fn("fill_bo_bicond", <<5, 3, 1>>)),
  LK_PSEUDO("kBcctr", Fn("fill_bo_bicond", <<13, 3, 1>>)),
  LK_PSEUDO("kBcctr", Fn("fill_bo_bicond", <<5, 3, 1>>)),
  PLAIN_PSEUDO("kCreqv", Lambda(<<Ins(1, "operands[0]"), Ins(2, "operands[0]")>>)),
  PLAIN_PSEUDO("kCrxor", Lambda(<<Ins(1, "operands[0]"), Ins(2, "operands[0]")>>)),
  PLAIN_PSEUDO("kCror", Lambda(<<Ins(2, "operands[1]")>>)),
  PLAIN_PSEUDO("kCrnor", Lambda(<<Ins(2, "operands[1]")>>)),
  PLAIN_PSEUDO("kTw", Fn("trap_set_TO", <<16>>)),
  PLAIN_PSEUDO("kTwi", Fn("trap_set_TO", <<16>>)),
  PLAIN_PSEUDO("kTw", Fn("trap_set_TO", <<20>>)),
  PLAIN_PSEUDO("kTwi", Fn("trap_set_TO", <<20>>)),
  PLAIN_PSEUDO("kTw", Fn("trap_set_TO", <<4>>)),
  PLAIN_PSEUDO("kTwi", Fn("trap_set_TO", <<4>>)),
  PLAIN_PSEUDO("kTw", Fn("trap_set_TO", <<12>>)),
  PLAIN_PSEUDO("kTwi", Fn("trap_set_TO", <<12>>)),
  PLAIN_PSEUDO("kTw", Fn("trap_set_TO", <<8>>)),
  PLAIN_PSEUDO("kTwi", Fn("trap_set_TO", <<8>>)),
  PLAIN_PSEUDO("kTw", Fn("trap_set_TO", <<12>>)),
  PLAIN_PSEUDO("kTwi", Fn("trap_set_TO", <<12>>)),
  PLAIN_PSEUDO("kTw", Fn("trap_set_TO", <<24>>)),
  PLAIN_PSEUDO("kTwi", Fn("trap_set_TO", <<24>>)),
  PLAIN_PSEUDO("kTw", Fn("trap_set_TO", <<20>>)),
  PLAIN_PSEUDO("kTwi", Fn("trap_set_TO", <<20>>)),
  PLAIN_PSEUDO("kTw", Fn("trap_set_TO", <<2>>)),
  PLAIN_PSEUDO("kTwi", Fn("trap_set_TO", <<2>>)),
  PLAIN_PSEUDO("kTw", Fn("trap_set_TO", <<6>>)),
  PLAIN_PSEUDO("kTwi", Fn("trap_set_TO", <<6>>)),
  PLAIN_PSEUDO("kTw", Fn("trap_set_TO", <<5>>)),
  PLAIN_PSEUDO("kTwi", Fn("trap_set_TO", <<5>>)),
  PLAIN_PSEUDO("kTw", Fn("trap_set_TO", <<1>>)),
  PLAIN_PSEUDO("kTwi", Fn("trap_set_TO", <<1>>)),
  PLAIN_PSEUDO("kTw", Fn("trap_set_TO", <<5>>)),
  PLAIN_PSEUDO("kTwi", Fn("trap_set_TO", <<5>>)),
  PLAIN_PSEUDO("kTw", Fn("trap_set_TO", <<6>>)),
  PLAIN_PSEUDO("kTwi", Fn("trap_set_TO", <<6>>)),
  PLAIN_PSEUDO("kTw", Lambda(<<Ins(0, "31"), Ins(1, "0"), Ins(2, "0")>>)),
  PLAIN_PSEUDO("kMtspr_nobitswap", Fn("fill_mtspr", <<spr_bitswap(1)>>)),
  PLAIN_PSEUDO("kMfspr_nobitswap", Fn("fill_mfspr", <<spr_bitswap(1)>>)),
  PLAIN_PSEUDO("kMtspr_nobitswap", Fn("fill_mtspr", <<spr_bitswap(8)>>)),
  PLAIN_PSEUDO("kMfspr_nobitswap", Fn("fill_mfspr", <<spr_bitswap(8)>>)),
  PLAIN_PSEUDO("kMtspr_nobitswap", Fn("fill_mtspr", <<spr_bitswap(9)>>)),
  PLAIN_PSEUDO("kMfspr_nobitswap", Fn("fill_mfspr", <<spr_bitswap(9)>>)),
  PLAIN_PSEUDO("kMtspr_nobitswap", Fn("fill_mtspr", <<spr_bitswap(18)>>)),
  PLAIN_PSEUDO("kMfspr_nobitswap", Fn("fill_mfspr", <<spr_bitswap(18)>>)),
  PLAIN_PSEUDO("kMtspr_nobitswap", Fn("fill_mtspr", <<spr_bitswap(19)>>)),
  PLAIN_PSEUDO("kMfspr_nobitswap", Fn("fill_mfspr", <<spr_bitswap(19)>>)),
  PLAIN_PSEUDO("kMtspr_nobitswap", Fn("fill_mtspr", <<spr_bitswap(22)>>)),
  PLAIN_PSEUDO("kMfspr_nobitswap", Fn("fill_mfspr", <<spr_bitswap(22)>>)),
  PLAIN_PSEUDO("kMtspr_nobitswap", Fn("fill_mtspr", <<spr_bitswap(25)>>)),
  PLAIN_PSEUDO("kMfspr_nobitswap", Fn("fill_mfspr", <<spr_bitswap(25)>>)),
  PLAIN_PSEUDO("kMtspr_nobitswap", Fn("fill_mtspr", <<spr_bitswap(26)>>)),
  PLAIN_PSEUDO("kMfspr_nobitswap", Fn("fill_mfspr", <<spr_bitswap(26)>>)),
  PLAIN_PSEUDO("kMtspr_nobitswap", Fn("fill_mtspr", <<spr_bitswap(27)>>)),
  PLAIN_PSEUDO("kMfspr_nobitswap", Fn("fill_mfspr", <<spr_bitswap(27)>>)),
  PLAIN_PSEUDO("kMtspr_nobitswap", Fn("fill_mtspr", <<spr_bitswap(280)>>)),
  PLAIN_PSEUDO("kMfspr_nobitswap", Fn("fill_mfspr", <<spr_bitswap(280)>>)),
  PLAIN_PSEUDO("kMtspr_nobitswap", Fn("fill_mtspr", <<spr_bitswap(282)>>)),
  PLAIN_PSEUDO("kMfspr_nobitswap", Fn("fill_mfspr", <<spr_bitswap(282)>>)),
  PLAIN_PSEUDO("kMtspr_nobitswap", Fn("fill_mtspr", <<spr_bitswap(284)>>)),
  PLAIN_PSEUDO("kMfspr_nobitswap", Fn("fill_mfspr", <<spr_bitswap(268)>>)),
  PLAIN_PSEUDO("kMtspr_nobitswap", Fn("fill_mtspr", <<spr_bitswap(285)>>)),
  PLAIN_PSEUDO("kMfspr_nobitswap", Fn("fill_mfspr", <<spr_bitswap(269)>>)),
  PLAIN_PSEUDO("kMtspr_nobitswap", Lambda(<<Set(0, "spr_bitswap(operands[0] + 272)")>>)),
  PLAIN_PSEUDO("kMfspr_nobitswap", Lambda(<<Set(1, "spr_bitswap(operands[1] + 272)")>>)),
  PLAIN_PSEUDO("kMtspr_nobitswap", Fn("fill_mtspr_bat", <<spr_bitswap(528)>>)),
  PLAIN_PSEUDO("kMfspr_nobitswap", Fn("fill_mfspr_bat", <<spr_bitswap(528)>>)),
  PLAIN_PSEUDO("kMtspr_nobitswap", Fn("fill_mtspr_bat", <<spr_bitswap(529)>>)),
  PLAIN_PSEUDO("kMfspr_nobitswap", Fn("fill_mfspr_bat", <<spr_bitswap(529)>>)),
  PLAIN_PSEUDO("kMtspr_nobitswap", Fn("fill_mtspr_bat", <<spr_bitswap(536)>>)),
  PLAIN_PSEUDO("kMfspr_nobitswap", Fn("fill_mfspr_bat", <<spr_bitswap(536)>>)),
  PLAIN_PSEUDO("kMtspr_nobitswap", Fn("fill_mtspr_bat", <<spr_bitswap(537)>>)),
  PLAIN_PSEUDO("kMfspr_nobitswap", Fn("fill_mfspr_bat", <<spr_bitswap(537)>>)),
  PLAIN_PSEUDO("kOri", Lambda(<<Ins(0, "0"), Ins(1, "0"), Ins(2, "0")>>)),
  PLAIN_PSEUDO("kAddi", Lambda(<<Ins(1, "0")>>)),
  PLAIN_PSEUDO("kAddis", Lambda(<<Ins(1, "0")>>)),
  PLAIN_PSEUDO("kAddi", Lambda(<<
      Set(2, "operands[2] ^ operands[1]"), Set(1, "operands[1] ^ operands[2]"),
      Set(2, "operands[2] ^ operands[1]")>>)),
  RC_PSEUDO("kOr", Lambda(<<Ins(2, "operands[1]")>>)),
  RC_PSEUDO("kNor", Lambda(<<Ins(2, "operands[1]")>>)),
  PLAIN_PSEUDO("kMtcrf", Lambda(<<Ins(0, "0xff")>>)),
  PLAIN_PSEUDO("kMfspr_nobitswap", Fn("bitswap_idx", <<1>>)),
  PLAIN_PSEUDO("kMftb_nobitswap", Fn("bitswap_idx", <<1>>)),
  PLAIN_PSEUDO("kMtspr_nobitswap", Fn("bitswap_idx", <<0>>))
  >>)

\* the rows of the table of the base mnemonics that the extended mnemonics
\* map to (plain variant; the variants of a row share its operands)
base_mnemonics ==
  ("kAddi" :> EMIT_MNEMONIC_ENTRY(14, U32(0), <<"_D", "_A", "_SIMM">>)) @@
  ("kAddis" :> EMIT_MNEMONIC_ENTRY(15, U32(0), <<"_D", "_A", "_SIMM">>)) @@
  ("kAddic" :> EMIT_MNEMONIC_ENTRY(12, U32(0), <<"_D", "_A", "_SIMM">>)) @@
  ("kAddicDot" :> EMIT_MNEMONIC_ENTRY(13, U32(0), <<"_D", "_A", "_SIMM">>)) @@
  ("kSubf" :> EMIT_MNEMONIC_ENTRY(31, insert_val(40, 22, 30), <<"_D", "_A", "_B">>)) @@
  ("kSubfc" :> EMIT_MNEMONIC_ENTRY(31, insert_val(8, 22, 30), <<"_D", "_A", "_B">>)) @@
  ("kCmpi" :> EMIT_MNEMONIC_ENTRY(11, U32(0), <<"_Crfd", "_L", "_A", "_SIMM">>)) @@
  ("kCmp" :> EMIT_MNEMONIC_ENTRY(31, insert_val(0, 21, 30), <<"_Crfd", "_L", "_A", "_B">>)) @@
  ("kCmpli" :> EMIT_MNEMONIC_ENTRY(10, U32(0), <<"_Crfd", "_L", "_A", "_UIMM">>)) @@
  ("kCmpl" :> EMIT_MNEMONIC_ENTRY(31, insert_val(32, 21, 30), <<"_Crfd", "_L", "_A", "_B">>)) @@
  ("kRlwinm" :> EMIT_MNEMONIC_ENTRY(21, U32(0), <<"_A", "_S", "_SH", "_MB", "_ME">>)) @@
  ("kRlwimi" :> EMIT_MNEMONIC_ENTRY(20, U32(0), <<"_A", "_S", "_SH", "_MB", "_ME">>)) @@
  ("kRlwnm" :> EMIT_MNEMONIC_ENTRY(23, U32(0), <<"_A", "_S", "_B", "_MB", "_ME">>)) @@
  ("kBc" :> EMIT_MNEMONIC_ENTRY(16, U32(0), <<"_BO", "_BI", "_BD">>)) @@
  ("kBclr" :> EMIT_MNEMONIC_ENTRY(19, insert_val(16, 21, 30), <<"_BO", "_BI">>)) @@
  ("kBcctr" :> EMIT_MNEMONIC_ENTRY(19, insert_val(528, 21, 30), <<"_BO", "_BI">>)) @@
  ("kCreqv" :> EMIT_MNEMONIC_ENTRY(19, insert_val(289, 21, 30), <<"_Crbd", "_Crba", "_Crbb">>)) @@
  ("kCrxor" :> EMIT_MNEMONIC_ENTRY(19, insert_val(193, 21, 30), <<"_Crbd", "_Crba", "_Crbb">>)) @@
  ("kCror" :> EMIT_MNEMONIC_ENTRY(19, insert_val(449, 21, 30), <<"_Crbd", "_Crba", "_Crbb">>)) @@
  ("kCrnor" :> EMIT_MNEMONIC_ENTRY(19, insert_val(33, 21, 30), <<"_Crbd", "_Crba", "_Crbb">>)) @@
  ("kTw" :> EMIT_MNEMONIC_ENTRY(31, insert_val(4, 21, 30), <<"_TO", "_A", "_B">>)) @@
  ("kTwi" :> EMIT_MNEMONIC_ENTRY(3, U32(0), <<"_TO", "_A", "_SIMM">>)) @@
  ("kMtspr_nobitswap" :> EMIT_MNEMONIC_ENTRY(31, insert_val(467, 21, 30), <<"_SPR", "_D">>)) @@
  ("kMfspr_nobitswap" :> EMIT_MNEMONIC_ENTRY(31, insert_val(339, 21, 30), <<"_D", "_SPR">>)) @@
  ("kOri" :> EMIT_MNEMONIC_ENTRY(24, U32(0), <<"_A", "_S", "_UIMM">>)) @@
  ("kOr" :> EMIT_MNEMONIC_ENTRY(31, insert_val(444, 21, 30), <<"_A", "_S", "_B">>)) @@
  ("kNor" :> EMIT_MNEMONIC_ENTRY(31, insert_val(124, 21, 30), <<"_A", "_S", "_B">>)) @@
  ("kMtcrf" :> EMIT_MNEMONIC_ENTRY(31, insert_val(144, 21, 30), <<"_CRM", "_S">>)) @@
  ("kMftb_nobitswap" :> EMIT_MNEMONIC_ENTRY(31, insert_val(371, 21, 30), <<"_D", "_TPR">>))

\* the numbers of operands that ParseOperandList accepts for a ParseAlg: the
\* operands up to a missing optional comma, or all of them
RECURSIVE OperandsUpTo(_, _)
OperandsUpTo(steps, i) ==
  IF i = 0 THEN 0 ELSE OperandsUpTo(steps, i - 1) + (IF steps[i] = "_Operand" THEN 1 ELSE 0)
AcceptedCounts(alg) ==
  CASE alg = "None" -> {0}
    [] alg = "NoneOrOp1" -> {0, 1}
    [] OTHER -> {OperandsUpTo(ParseSteps(alg), i) :
                   i \in {Len(ParseSteps(alg))} \cup
                         {k \in 1..Len(ParseSteps(alg)) : ParseSteps(alg)[k] = "_OptComma"}}

(***************************************************************************)
(* An extended instruction from its mnemonic to the operands of its base   *)
(* mnemonic:                                                               *)
(*   "ParseInstruction"  the mnemonic is looked up in the parser table     *)
(*   "ParseOperandList"  the operands are parsed as the ParseAlg says      *)
(*   "Transform"         the callback of the assembler table rewrites them *)
(***************************************************************************)
InitExtended ==
  /\ pc = "ParseInstruction"
  /\ \E name \in DOMAIN extended_tokens :
        st = [name |-> name, info |-> No, operands |-> Copy(0), desc |-> No]

FindExtended ==
  /\ pc = "ParseInstruction"
  /\ st' = [st EXCEPT !.info = extended_tokens[st.name]]
  /\ pc' = "ParseOperandList"

ParseOperands ==
  /\ pc = "ParseOperandList"
  /\ \E n \in AcceptedCounts(st.info.parse_algorithm) : st' = [st EXCEPT !.operands = Copy(n)]
  /\ pc' = "Transform"

TransformOperands ==
  /\ pc = "Transform"
  /\ LET ext == extended_mnemonics[st.info.mnemonic_index + 1]
     IN st' = [st EXCEPT !.desc = ext,
                         !.operands = transform_operands(ext.transform_operands, @)]
  /\ pc' = "Done"

NextExtended == FindExtended \/ ParseOperands \/ TransformOperands

SpecExtended == InitExtended /\ [][NextExtended]_vars

(***************************************************************************)
(* Properties of the symbol tables and of the fixups, under Spec           *)
(***************************************************************************)
\* the name that the step taken at position p declares: the NAME of `NAME:` in
\* front of ParseLabel, the NAME of `.defvar NAME` in front of ParseLine; ""
\* when the step declares nothing
DeclaredName(s, p) ==
  LET t == LookaheadN(s.lx, 3).toks
  IN CASE p = "ParseLabel" /\ t[1].token_type = "kIdentifier" /\ t[2].token_type = "kColon" ->
            t[1].token_val
       [] p = "ParseLine" /\ t[1].token_type = "kDot" /\ t[2].token_val = "defvar"
            /\ t[3].token_type = "kIdentifier" -> t[3].token_val
       [] OTHER -> ""

\* C1: every identifier is a key of at most one of the label table and the
\* constant table, and a declaration of a name that one of the tables already
\* holds is rejected with "Label/Constant X is already defined" and leaves both
\* tables as they were.
C1_AtMostOneDefinition ==
  /\ [](DOMAIN st.labels \cap DOMAIN st.constants = {})
  /\ [][DeclaredName(st, pc) \in DOMAIN st.labels \cup DOMAIN st.constants =>
          /\ st'.error.has_value
          /\ st'.error.message =
               "Label/Constant " \o DeclaredName(st, pc) \o " is already defined"
          /\ st'.labels = st.labels
          /\ st'.constants = st.constants]_vars

\* a .defvar of a name that is a label has been rejected
C1_Witness ==
  /\ pc = "Error"
  /\ st.error.message = "Label/Constant lbl is already defined"
  /\ "lbl" \in DOMAIN st.labels
  /\ st.active_directive = "kDefVar"

\* C2: a fixup is evaluated only once the parser has reached the end of the
\* input without error, and the label and constant tables it reads are the
\* final ones.
C2_FixupsAfterParsing ==
  \A i \in DOMAIN st.fixup_log :
     /\ st.fixup_log[i].eof
     /\ ~st.fixup_log[i].error
     /\ st.fixup_log[i].labels = st.labels
     /\ st.fixup_log[i].constants = st.constants

\* `b lbl` in front of `lbl: nop`: the fixup has found the label of the next line
C2_Witness ==
  /\ pc = "Done"
  /\ ~st.owner_error.has_value
  /\ Len(st.fixup_log) = 1
  /\ st.labels = [lbl |-> Hex32(128, 0, 0, 4)]
  /\ st.operand_pool[1].val = U32(4)

\* the value the specification gives S@ha
HighAdjusted(S) == UAnd(UShr(UAdd(Cast(S, 4), U32(32768)), 16), U32(65535))
SymbolValue(s, name) ==
  IF name \in DOMAIN s.labels THEN s.labels[name] ELSE Cast(s.constants[name], 4)
\* the text of operand number i (from 0) of the operand pool, read in the line
\* of its instruction inst
OperandText(s, inst, i) ==
  Substr(inst.raw_text, s.operand_pool[i + 1].tag.begin, s.operand_pool[i + 1].tag.len)
IsHiaddr(text) == Len(text) > 3 /\ Substr(text, Len(text) - 3, 3) = "@ha"
InstChunks(s) ==
  UNION {{s.blocks[b].chunks[c] :
            c \in {x \in DOMAIN s.blocks[b].chunks : s.blocks[b].chunks[x].kind = "InstChunk"}} :
         b \in DOMAIN s.blocks}
Instructions(s) == UNION {{chunk.insts[j] : j \in DOMAIN chunk.insts} : chunk \in InstChunks(s)}

\* C8: S@ha is ((S + 0x8000) >> 16) & 0xFFFF, in the expression of a directive
\* (evaluated at once) and in the operand of an instruction (evaluated by its
\* fixup).
C8_HiaddrRounds ==
  /\ \A i \in DOMAIN st.ha_log :
        Cast(st.ha_log[i].val, 4) = HighAdjusted(SymbolValue(st, st.ha_log[i].sym))
  /\ pc = "Done" /\ ~st.owner_error.has_value =>
        \A inst \in Instructions(st) :
           \A i \in inst.op_index..(inst.op_index + inst.op_count - 1) :
              LET text == OperandText(st, inst, i)
              IN IsHiaddr(text) =>
                   st.operand_pool[i + 1].val =
                     HighAdjusted(SymbolValue(st, Substr(text, 0, Len(text) - 3)))

\* C10: the operand of an instruction that is the name of a label declared
\* before it has the value (address of the label) - (address of the
\* instruction).
C10_BackwardLabelRelative ==
  pc = "Done" /\ ~st.owner_error.has_value =>
     \A i \in DOMAIN st.operand_fixups :
        LET f == st.operand_fixups[i]
        IN f.k = "lit" /\ f.ref # "" =>
             st.operand_pool[i].val = USub(st.labels[f.ref], f.at)

(***************************************************************************)
(* Error handling, under SpecFault and SpecText                            *)
(***************************************************************************)
\* C3: once the error of the parse state is set, no token is consumed and no
\* callout other than OnError is issued, and the error handed over at the end
\* is the first one that was set.
C3_FirstErrorAborts ==
  /\ st.late = <<>>
  /\ pc = "Done" /\ st.first_error.has_value => st.owner_error = st.first_error

\* line number n (from 0) of a text, without its newline
RECURSIVE InputLine(_, _)
InputLine(text, n) ==
  LET e == LineEnd(text, 0)
      line == Substr(text, 0, e)
  IN IF n = 0
     THEN IF line # "" /\ CharAt(line, Len(line) - 1) = "\n"
          THEN Substr(line, 0, Len(line) - 1) ELSE line
     ELSE InputLine(Substr(text, e, Len(text) - e), n - 1)

\* C4: an error raised at a token other than the end of the input names the
\* span of that token: source_line is the text of input line number `line`, and
\* the len characters of source_line from column col on are the token's text.
C4_ErrorSpan ==
  st.first_error.has_value /\ st.err_lexeme # "" =>
     LET e == st.first_error
         line == InputLine(st.lx.lex_string, e.line)
     IN /\ e.source_line \in {line, line \o "\n"}
        /\ Substr(e.source_line, e.col, e.len) = st.err_lexeme

\* C9: the characters of a comment, from `#` to the end of its line, give no
\* token: no token of the lexer begins with `#`, and no error is raised at one.
C9_CommentElided ==
  /\ \A i \in DOMAIN st.lx.lexed_tokens :
        Substr(st.lx.lexed_tokens[i].val.token_val, 0, 1) # "#"
  /\ st.first_error.has_value => st.err_lexeme # "#"

(***************************************************************************)
(* Block layout, under SpecData                                            *)
(***************************************************************************)
\* the number of elements of the chunks of one kind from chunk number i on
RECURSIVE CountElements(_, _, _)
CountElements(chunks, kind, i) ==
  IF i > Len(chunks) THEN 0
  ELSE CountElements(chunks, kind, i + 1) +
       (CASE chunks[i].kind # kind -> 0
          [] kind = "InstChunk" -> Len(chunks[i].insts)
          [] kind = "ByteChunk" -> Len(chunks[i].bytes))
RECURSIVE PadTotal(_, _)
PadTotal(chunks, i) ==
  IF i > Len(chunks) THEN U64(0)
  ELSE UAdd(PadTotal(chunks, i + 1),
            IF chunks[i].kind = "PadChunk" THEN chunks[i].size ELSE U64(0))

\* C5: the end address of every block is its base address plus 4 times the
\* number of its instructions plus the number of its bytes plus the size of
\* its padding, modulo 2^32.
C5_BlockEndAddress ==
  \A b \in DOMAIN st.blocks :
     BlockEndAddress(st.blocks[b]) =
       UAdd(UAdd(UAdd(st.blocks[b].block_address,
                      FromNat(4, 4 * CountElements(st.blocks[b].chunks, "InstChunk", 1))),
                 FromNat(4, CountElements(st.blocks[b].chunks, "ByteChunk", 1))),
            Cast(PadTotal(st.blocks[b].chunks, 1), 4))

\* a block that holds an instruction chunk followed by a chunk of another kind
C5_Witness ==
  \E b \in DOMAIN st.blocks :
     /\ Len(st.blocks[b].chunks) = 2
     /\ st.blocks[b].chunks[1].kind = "InstChunk"
     /\ st.blocks[b].chunks[2].kind # "InstChunk"
     /\ BlockEndAddress(st.blocks[b]) # st.blocks[b].block_address

\* the name of the directive of a line that begins with a dot, "" for another line
RECURSIVE WordEnd(_, _)
WordEnd(line, i) == IF i < Len(line) /\ CharAt(line, i) \in Alnum THEN WordEnd(line, i + 1) ELSE i
DirectiveName(line) ==
  IF CharAt(line, 0) = "." THEN Substr(line, 1, WordEnd(line, 1) - 1) ELSE ""
RECURSIVE CountChar(_, _, _)
CountChar(line, ch, i) ==
  IF i >= Len(line) THEN 0
  ELSE CountChar(line, ch, i + 1) + (IF CharAt(line, i) = ch THEN 1 ELSE 0)
\* N of the claim: the width of one item of a data directive, 0 for the others
ItemWidth(name) ==
  CASE name = "byte" -> 1 [] name = "2byte" -> 2 [] name = "4byte" -> 4 [] name = "8byte" -> 8
    [] name = "float" -> 4 [] name = "double" -> 8 [] OTHER -> 0

\* C6: a .byte, .2byte, .4byte, .8byte, .float or .double directive with k items
\* moves the end of the active block forward by N*k bytes.
C6_DataDirectiveGrowth ==
  [][LET line == CurrentLine(st.lx)
         N == ItemWidth(DirectiveName(line))
         k == 1 + CountChar(line, ",", 0)
     IN pc = "ParseLine" /\ N > 0 /\ ~Failed(st') =>
          /\ st'.active_block = st.active_block
          /\ CurrentAddress(st') = UAdd(CurrentAddress(st), FromNat(4, N * k))]_vars

\* C7: in the order of their creation, every block ends at or before the base
\* address of the next one.
C7_BlocksAscend ==
  \A b \in 1..(Len(st.blocks) - 1) :
     ULeq(BlockEndAddress(st.blocks[b]), st.blocks[b + 1].block_address)

(***************************************************************************)
(* Expressions, under SpecExpr                                             *)
(***************************************************************************)
\* C11: an instruction operand that is `.` alone has the value 0 (the
\* instruction refers to itself), whatever the base address.
C11_DotIsSelf ==
  pc = "Done" /\ ~st.owner_error.has_value =>
     \A inst \in Instructions(st) :
        \A i \in inst.op_index..(inst.op_index + inst.op_count - 1) :
           OperandText(st, inst, i) = "." => st.operand_pool[i + 1].val = U32(0)

\* C12: an identifier met in the argument of a directive that is no label
\* declared before and no constant of a completed .defvar (the constant being
\* defined is not complete) stops the parse with an undefined-reference error.
C12_UndefinedIsError ==
  \A i \in DOMAIN st.id_log :
     LET e == st.id_log[i]
     IN e.name \notin e.labels /\ (e.name \notin e.constants \/ e.name = e.active_var) =>
          /\ i = Len(st.id_log)
          /\ st.first_error.has_value
          /\ st.first_error.message =
               "Undefined reference to Label/Constant '" \o e.name \o "'"

\* the identifiers of a closure that are in neither table
RECURSIVE UnresolvedIn(_, _)
UnresolvedIn(f, s) ==
  CASE f.k = "lit" -> {}
    [] f.k = "sym" -> {f.sym} \ (DOMAIN s.labels \cup DOMAIN s.constants)
    [] f.k \in {"un", "conv"} -> UnresolvedIn(f.sub, s)
    [] f.k = "bin" -> UnresolvedIn(f.lhs, s) \cup UnresolvedIn(f.rhs, s)
UnresolvedOperands(s) ==
  {i \in DOMAIN s.operand_fixups : UnresolvedIn(s.operand_fixups[i], s) # {}}
\* the first operand, in source order, with such an identifier
FirstUnresolved(s) ==
  CHOOSE k \in UnresolvedOperands(s) : \A j \in UnresolvedOperands(s) : k <= j
\* the fixup phase ran the closures of the operands 1..k only
StoppedAt(s, k) ==
  /\ Len(s.fixup_log) = k
  /\ \A j \in DOMAIN s.operand_pool : j > k => s.operand_pool[j].val = U32(0)

C14_ParenGroups ==
  \A i \in DOMAIN st.paren_log :
     st.paren_log[i].type = "kNormal" => st.paren_log[i].outer = st.paren_log[i].inner

\* the value of a closure with every label taken as its address
RECURSIVE AbsValue(_, _)
AbsValue(f, s) ==
  CASE f.k = "lit" -> f.val
    [] f.k = "sym" -> SymbolValue(s, f.sym)
    [] f.k = "un" -> ApplyUnary(f.f, AbsValue(f.sub, s))
    [] f.k = "conv" -> USub(AbsValue(f.sub, s), f.inst_address)
    [] f.k = "bin" -> ApplyBinary(f.f, AbsValue(f.lhs, s), AbsValue(f.rhs, s))

\* C15: an operand that is an expression E between back-ticks has the value
\* abs(E) - A, A the address of its instruction, for labels declared before
\* and after the instruction alike.
C15_RelConv ==
  pc = "Done" /\ ~st.owner_error.has_value =>
     \A i \in DOMAIN st.operand_fixups :
        LET f == st.operand_fixups[i]
        IN f.k = "conv" =>
             st.operand_pool[i].val = USub(AbsValue(f.sub, st), f.inst_address)

(***************************************************************************)
(* Tokens, under SpecLex                                                   *)
(***************************************************************************)
AllDigits(w) == \A i \in 0..(Len(w) - 1) : CharAt(w, i) \in Digit
\* the number a string of decimal digits denotes
RECURSIVE NumberOf(_, _)
NumberOf(w, base) ==
  IF w = "" THEN 0
  ELSE NumberOf(Substr(w, 0, Len(w) - 1), base) * base + convert_nib(CharAt(w, Len(w) - 1))
\* a decimal number as it is written: digits without a leading zero
IsNumeral(w) == w # "" /\ AllDigits(w) /\ (Len(w) = 1 \/ Substr(w, 0, 1) # "0")
\* word is prefix followed by a numeral of lo..hi
IsRegister(word, prefix, lo, hi) ==
  /\ Substr(word, 0, Len(prefix)) = prefix
  /\ IsNumeral(Substr(word, Len(prefix), Len(word)))
  /\ Len(word) - Len(prefix) <= 3
  /\ NumberOf(Substr(word, Len(prefix), Len(word)), 10) \in lo..hi

\* C16: under the typical rule a word is a GPR (FPR) token exactly when it is
\* r (f) followed by a number of 0..31, and a CR field token exactly when it
\* is cr followed by a number of 0..7.
C16_RegisterTokens ==
  pc = "EvalToken" /\ st.tok.token_type \in {"kIdentifier", "kGPR", "kFPR", "kCRField"} =>
     LET word == st.tok.token_val
     IN /\ st.tok.token_type = "kGPR" <=> IsRegister(word, "r", 0, 31)
        /\ st.tok.token_type = "kFPR" <=> IsRegister(word, "f", 0, 31)
        /\ st.tok.token_type = "kCRField" <=> IsRegister(word, "cr", 0, 7)

\* the number an integer literal denotes: its digits after the prefix, in the
\* base that the prefix selects
Denoted(lit) ==
  IF Substr(lit, 0, 2) = "0x" THEN NumberOf(Substr(lit, 2, Len(lit)), 16)
  ELSE IF Substr(lit, 0, 2) = "0b" THEN NumberOf(Substr(lit, 2, Len(lit)), 2)
  ELSE IF Len(lit) > 1 /\ CharAt(lit, 0) = "0" THEN NumberOf(Substr(lit, 1, Len(lit)), 8)
  ELSE NumberOf(lit, 10)

\* C17: the value of an integer literal at width w is the number its digits
\* denote in the base of its prefix, modulo 2^w.
C17_IntegerLiteralValue ==
  pc = "Eat" /\ st.how = "Lookahead" /\
  st.tok.token_type \in {"kHexadecimalLit", "kDecimalLit", "kOctalLit", "kBinaryLit"} =>
     /\ st.val.has_value
     /\ st.val.value = FromNat(TypeWidth(st.tname), Denoted(st.tok.token_val))

\* [+-]?(\d+(\.\d+)?|\.\d+)(e[+-]?\d+)?
IsMantissa(w) ==
  \/ w # "" /\ AllDigits(w)
  \/ \E d \in 0..(Len(w) - 2) :
        /\ CharAt(w, d) = "."
        /\ AllDigits(Substr(w, 0, d))
        /\ AllDigits(Substr(w, d + 1, Len(w)))
Unsigned(w) == IF Substr(w, 0, 1) \in {"+", "-"} THEN Substr(w, 1, Len(w)) ELSE w
IsExponent(w) ==
  /\ Substr(w, 0, 1) = "e"
  /\ Unsigned(Substr(w, 1, Len(w))) # ""
  /\ AllDigits(Unsigned(Substr(w, 1, Len(w))))
IsFloat(w) ==
  \E k \in 1..Len(Unsigned(w)) :
     /\ IsMantissa(Substr(Unsigned(w), 0, k))
     /\ k = Len(Unsigned(w)) \/ IsExponent(Substr(Unsigned(w), k, Len(w)))
FloatPrefixes(text) == {n \in 1..Len(text) : IsFloat(Substr(text, 0, n))}

\* C18: LookaheadFloat returns the longest prefix of the input that is a float
\* literal, as a float token, and an invalid token when no prefix is one.
C18_FloatLongestMatch ==
  pc = "Eat" /\ st.how = "LookaheadFloat" =>
     LET P == FloatPrefixes(st.lx.lex_string)
     IN IF P = {} THEN st.tok.token_type = "kInvalid"
        ELSE /\ st.tok.token_type = "kFloatLit"
             /\ st.tok.token_val =
                  Substr(st.lx.lex_string, 0, CHOOSE n \in P : \A m \in P : m <= n)

(***************************************************************************)
(* String directives, under SpecString                                     *)
(***************************************************************************)
\* the C decoding of the inside of a string literal from index i on: an octal
\* escape takes one to three octal digits, a hexadecimal escape every
\* hexadecimal digit that follows \x
RECURSIVE OctalRun(_, _, _)
OctalRun(w, i, max) ==
  IF max > 0 /\ i < Len(w) /\ is_octal(CharAt(w, i)) THEN 1 + OctalRun(w, i + 1, max - 1) ELSE 0
RECURSIVE HexRun(_, _)
HexRun(w, i) == IF i < Len(w) /\ CharAt(w, i) \in XDigit THEN 1 + HexRun(w, i + 1) ELSE 0
RECURSIVE CDecode(_, _)
CDecode(w, i) ==
  IF i >= Len(w) THEN <<>>
  ELSE IF CharAt(w, i) # "\\" THEN <<Ord(CharAt(w, i))>> \o CDecode(w, i + 1)
  ELSE IF is_octal(CharAt(w, i + 1))
       THEN LET n == OctalRun(w, i + 1, 3)
            IN <<NumberOf(Substr(w, i + 1, n), 8) % 256>> \o CDecode(w, i + 1 + n)
  ELSE IF CharAt(w, i + 1) = "x"
       THEN LET n == HexRun(w, i + 2)
            IN <<NumberOf(Substr(w, i + 2, n), 16) % 256>> \o CDecode(w, i + 2 + n)
  ELSE <<simple_escape(CharAt(w, i + 1))>> \o CDecode(w, i + 2)

\* the bytes at the end of the active block
TailBytes(s) ==
  LET chunks == s.blocks[s.active_block].chunks
  IN IF chunks # <<>> /\ chunks[Len(chunks)].kind = "ByteChunk"
     THEN chunks[Len(chunks)].bytes ELSE <<>>

\* C19: an .ascii directive whose literal is accepted appends the bytes of the
\* C decoding of the literal, and nothing else, to the active block.
C19_AsciiBytes ==
  [][LET line == InputLine(CurrentLine(st.lx), 0)
         literal == Substr(line, 7, Len(line))
     IN pc = "ParseLine" /\ DirectiveName(line) = "ascii" /\ ~Failed(st') =>
          TailBytes(st') = TailBytes(st) \o CDecode(Substr(literal, 1, Len(literal) - 2), 0)]_vars

(***************************************************************************)
(* Operand descriptors, under SpecFit                                      *)
(***************************************************************************)
\* the highest and the lowest bit set in a mask (bit 0 the least significant)
TopBit(m) == CHOOSE i \in 0..31 : GetBit(m, i) = 1 /\ \A j \in (i + 1)..31 : GetBit(m, j) = 0
LowBit(m) == CHOOSE i \in 0..31 : GetBit(m, i) = 1 /\ \A j \in 0..(i - 1) : GetBit(m, j) = 0
\* x with every bit above bit t made equal to bit t
SignExtend(x, t) ==
  LET above == UNot(USub(UShl(U32(1), t + 1), U32(1)))
  IN IF GetBit(x, t) = 1 THEN UOr(x, above) ELSE UAnd(x, UNot(above))
\* the operand read back from an instruction word
Extract(D, word) ==
  LET field == UShr(UAnd(word, D.mask), D.shift)
  IN IF D.is_signed THEN SignExtend(field, TopBit(UShr(D.mask, D.shift))) ELSE field

\* C20: Fits(v) holds exactly when the field read back from Fit(v) is v; for
\* a signed field, exactly when v is in the two's-complement range of the
\* field and has no bit below the lowest bit of the mask.
C20_FitsIffRoundTrip ==
  pc = "Done" =>
     LET D == st.desc
         v == st.val
         mask_sh == UShr(D.mask, D.shift)
     IN /\ st.word = UAnd(UShl(v, D.shift), D.mask)
        /\ st.fits <=> Extract(D, st.word) = v
        /\ D.is_signed =>
             (st.fits <=> /\ \A j \in TopBit(mask_sh)..31 : GetBit(v, j) = GetBit(v, TopBit(mask_sh))
                          /\ \A j \in 0..(LowBit(mask_sh) - 1) : GetBit(v, j) = 0)

C20_Witness ==
  /\ pc = "Done"
  /\ st.desc.name = "_LI" /\ st.val = Hex32(255, 255, 255, 252)
  /\ st.fits /\ st.word = Hex32(3, 255, 255, 252)

(***************************************************************************)
(* Properties of the mnemonic tables, under SpecTable                      *)
(***************************************************************************)
\* the descriptor of the plain form of the mnemonic behind a key
BaseValue(key) ==
  arithmetic_mnemonics[key - (key % kVariantPermutations) + 1].initial_value

\* C21: for every arithmetic mnemonic and every variant that the parser table
\* accepts for it, the descriptor fetched at enumerator * 4 + variant is not the
\* invalid sentinel and its initial value is the value of the plain form, with
\* bit 0x1 set exactly for the record variants and bit 0x400 exactly for the
\* overflow variants.
C21_VariantEncoding ==
  pc = "Done" =>
    LET b == st.info.mnemonic_index % kVariantPermutations
        rc == IF b % 2 = 1 THEN U32(1) ELSE U32(0)
        oe == IF b \div 2 = 1 THEN U32(1024) ELSE U32(0)
    IN /\ st.desc # kInvalidMnemonic
       /\ st.desc.initial_value = UOr(UOr(BaseValue(st.info.mnemonic_index), rc), oe)
       /\ IsZero(UAnd(BaseValue(st.info.mnemonic_index), U32(1025)))

\* addo. is add (0x7c000214) with both bits: 0x7c000615
C21_Witness ==
  /\ pc = "Done"
  /\ st.name = "addo."
  /\ st.info.mnemonic_index = 3
  /\ st.desc.initial_value = Hex32(124, 0, 6, 21)

(***************************************************************************)
(* Termination, under SpecLoop                                             *)
(***************************************************************************)
\* the index of the first character that was not consumed yet
Unconsumed(s) ==
  IF s.lx.lexed_tokens = <<>> THEN s.lx.pos.index ELSE s.lx.lexed_tokens[1].tag.index

\* every iteration of the while loop of ParseProgram consumes the end of a line,
\* sets the error or sets eof, and no step of the parser gives input back
LoopProgress ==
  /\ pc = "NextLine" => Unconsumed(st') > Unconsumed(st) \/ Failed(st') \/ st'.eof
  /\ pc \in {"ParseProgram", "ParseLabel", "ParseLine", "NextLine"} =>
       Unconsumed(st') >= Unconsumed(st)

\* C22: parsing terminates on every input.  Every token lexed from a position
\* before the end of the input moves the lexer forward by at least one
\* character, every iteration of the loop of ParseProgram consumes a token, sets
\* the error or sets the end-of-file flag, and the run reaches its end, with the
\* whole program parsed or with an error.
C22_Terminates ==
  /\ [](~st.lx.stalled)
  /\ [][LoopProgress]_vars
  /\ <>(pc = "Done" /\ (st.eof \/ st.owner_error.has_value))

\* two lines with loops in them, parsed to the end of the input
C22_Witness ==
  /\ pc = "Done"
  /\ st.lx.lex_string = ".4byte 1*2+3|4\n.byte 1, 2, 3"
  /\ st.eof
  /\ ~st.owner_error.has_value
  /\ Unconsumed(st) = Len(st.lx.lex_string)

(***************************************************************************)
(* The identifier match rule, under SpecRule                               *)
(***************************************************************************)
\* a lexer over the text of L that starts at position p under the rule `rule`
FreshAt(L, p, rule) ==
  [L EXCEPT !.pos = p, !.scan_pos = p, !.lexed_tokens = <<>>, !.match_rule = rule]

\* the text without its blanks
RECURSIVE Unblank(_)
Unblank(w) ==
  IF w = "" THEN ""
  ELSE IF Substr(w, 0, 1) \in Space \ {"\n"} THEN Unblank(Substr(w, 1, Len(w) - 1))
       ELSE Substr(w, 0, 1) \o Unblank(Substr(w, 1, Len(w) - 1))

\* every consumed token is the one a fresh lexer under the rule in force lexes
\* at its position, and the consumed tokens tile the text: none is skipped and
\* none is delivered twice
DeliveredFresh ==
  \A i \in DOMAIN st.delivered :
    LET d == st.delivered[i]
    IN /\ d.tok = LexSingle(FreshAt(st.lx, d.from, d.rule)).tok
       /\ d.from = IF i = 1 THEN CursorPosition(0, 0, 0) ELSE st.delivered[i - 1].upto
       /\ d.upto.index >= d.from.index
       /\ Unblank(Substr(st.lx.lex_string, d.from.index, d.upto.index - d.from.index)) =
            d.tok.token_val

\* a rule change empties the buffer, goes back to the earliest token of the
\* buffer and leaves the consumed tokens alone
RuleChange ==
  (pc' = "Lex" /\ st'.delivered = st.delivered /\ st'.lx.lexed_tokens = <<>>) =>
    /\ st'.lx = FreshAt(st.lx, NextStart(st.lx), st'.lx.match_rule)
    /\ NextStart(st'.lx) = NextStart(st.lx)

\* C23: a change of the identifier match rule while tokens are buffered empties
\* the buffer and sets the lexer back to the start of the earliest buffered
\* token, so that the tokens delivered afterwards are those a fresh lexer under
\* the new rule lexes from there; the tokens consumed before stay as they were
\* and no character of the source is skipped or delivered twice.
C23_RuleReset == []DeliveredFresh /\ [][RuleChange]_vars

\* `add. r3`: add and . were buffered under kTypical and dropped by the change to
\* kMnemonic, under which add. was delivered as one identifier
C23_Witness ==
  /\ pc = "Done"
  /\ st.lx.lex_string = "add. r3"
  /\ st.dropped = <<"add", ".">>
  /\ Len(st.delivered) = 3
  /\ st.delivered[1].rule = "kMnemonic"
  /\ st.delivered[1].tok.token_val = "add."
  /\ st.delivered[2].tok.token_val = "r3"

(***************************************************************************)
(* Operator precedence, under SpecPrecedence.  The expected order of the   *)
(* callouts is computed by the shunting-yard algorithm from the table of   *)
(* binding strengths, not by descent through the grammar.                  *)
(***************************************************************************)
\* the tokens of an operand text made of digits, operators and parentheses
RECURSIVE OperandTokens(_, _)
OperandTokens(w, i) ==
  IF i >= Len(w) THEN <<>>
  ELSE IF Substr(w, i, 1) = " " THEN OperandTokens(w, i + 1)
       ELSE IF Substr(w, i, 2) \in {"<<", ">>"}
            THEN <<Substr(w, i, 2)>> \o OperandTokens(w, i + 2)
            ELSE <<Substr(w, i, 1)>> \o OperandTokens(w, i + 1)

BinaryName(t) ==
  CASE t = "|" -> "kOr" [] t = "^" -> "kXor" [] t = "&" -> "kAnd" [] t = "<<" -> "kLsh"
    [] t = ">>" -> "kRsh" [] t = "+" -> "kAdd" [] t = "-" -> "kSub" [] t = "*" -> "kMul"
    [] t = "/" -> "kDiv"
UnaryName(t) == IF t = "-" THEN "kNeg" ELSE "kNot"
Strength(op) ==
  CASE op = "kOr" -> 1 [] op = "kXor" -> 2 [] op = "kAnd" -> 3 [] op \in {"kLsh", "kRsh"} -> 4
    [] op \in {"kAdd", "kSub"} -> 5 [] op \in {"kMul", "kDiv"} -> 6
    [] op \in {"kNeg", "kNot"} -> 7 [] op = "(" -> 0

\* the operators on top of the stack that bind at least as strongly as `least`
RECURSIVE Yield(_, _)
Yield(ops, least) ==
  IF ops # <<>> /\ Strength(ops[Len(ops)]) >= least /\ ops[Len(ops)] # "("
  THEN <<ops[Len(ops)]>> \o Yield(SubSeq(ops, 1, Len(ops) - 1), least)
  ELSE <<>>

RECURSIVE ShuntingYard(_, _, _, _)
ShuntingYard(toks, i, ops, after_operand) ==
  IF i > Len(toks) THEN Yield(ops, 1)
  ELSE LET t == toks[i]
       IN CASE t = "(" -> ShuntingYard(toks, i + 1, Append(ops, "("), FALSE)
            [] t = ")" ->
                 LET out == Yield(ops, 1)
                 IN out \o ShuntingYard(toks, i + 1,
                                        SubSeq(ops, 1, Len(ops) - Len(out) - 1), TRUE)
            [] t \in Digit -> <<t>> \o ShuntingYard(toks, i + 1, ops, TRUE)
            [] OTHER ->
                 IF after_operand
                 THEN LET out == Yield(ops, Strength(BinaryName(t)))
                      IN out \o ShuntingYard(toks, i + 1,
                                             Append(SubSeq(ops, 1, Len(ops) - Len(out)),
                                                    BinaryName(t)), FALSE)
                 ELSE ShuntingYard(toks, i + 1, Append(ops, UnaryName(t)), FALSE)

\* the postfix forms of the operands of the lines `b OPERAND` of a text
RECURSIVE ExpectedPostfix(_, _)
ExpectedPostfix(text, n) ==
  IF InputLine(text, n) = "" THEN <<>>
  ELSE ShuntingYard(OperandTokens(InputLine(text, n), 2), 1, <<>>, FALSE) \o
       ExpectedPostfix(text, n + 1)

\* C24: the terminals and the operators of an operand are called out in the
\* postfix order of the expression read with the binding strengths, from the
\* weakest, |, ^, &, << >>, + -, * /, unary - ~, every binary operator
\* associating to the left.
C24_PostfixOrder ==
  (pc = "PostParse" /\ ~Failed(st)) => st.postfix = ExpectedPostfix(st.lx.lex_string, 0)

\* 1|2^3&4<<5+6*7 nests to the right, level by level
C24_Witness ==
  /\ pc = "PostParse"
  /\ st.lx.lex_string = "b 1|2^3&4<<5+6*7"
  /\ st.postfix = <<"1", "2", "3", "4", "5", "6", "7", "kMul", "kAdd", "kLsh", "kAnd",
                     "kXor", "kOr">>

(***************************************************************************)
(* Chunks, under SpecData                                                  *)
(***************************************************************************)
\* C25: in every block, at every point of the generation, two chunks that
\* follow one another are of different kinds: instructions that follow one
\* another fill one instruction chunk, data bytes one byte chunk, and the
\* padding of .zeros and .padalign one pad chunk.
C25_ChunksCoalesced ==
  \A b \in DOMAIN st.blocks :
    \A i \in 1..(Len(st.blocks[b].chunks) - 1) :
      st.blocks[b].chunks[i].kind # st.blocks[b].chunks[i + 1].kind

\* .zeros 3 and the one byte that .padalign 2 adds to it make one pad chunk of 4
C25_Witness ==
  /\ pc = "Done"
  /\ st.lx.lex_string = ".zeros 3\n.padalign 2"
  /\ st.blocks[1].chunks = <<PadChunk(U64(4))>>

(***************************************************************************)
(* The pool of operands, under Spec                                        *)
(***************************************************************************)
RECURSIVE Flatten(_, _)
Flatten(seqs, i) == IF i > Len(seqs) THEN <<>> ELSE seqs[i] \o Flatten(seqs, i + 1)
\* the instructions in the order of their emission: block after block, chunk
\* after chunk
EmittedInstructions(s) ==
  Flatten([b \in DOMAIN s.blocks |->
             Flatten([c \in DOMAIN s.blocks[b].chunks |->
                        IF s.blocks[b].chunks[c].kind = "InstChunk"
                        THEN s.blocks[b].chunks[c].insts ELSE <<>>], 1)], 1)
\* the operands written on the line of an instruction: none after the bare
\* mnemonic, else one more than the commas
OperandsWritten(raw_text) ==
  LET words == CountChar(raw_text, " ", 0) + 1 - CountChar(raw_text, ":", 0)
  IN IF words <= 1 THEN 0 ELSE CountChar(raw_text, ",", 0) + 1

\* C26: at every point of the parse the range [op_index, op_index + op_count)
\* of every emitted instruction lies within operand_pool, the range of an
\* earlier instruction ends where or before the range of a later one begins,
\* op_count is the number of operands written on the instruction's line, and
\* operand_fixups is as long as operand_pool.
C26_OperandRanges ==
  LET insts == EmittedInstructions(st)
  IN /\ Len(st.operand_fixups) = Len(st.operand_pool)
     /\ \A k \in DOMAIN insts :
          /\ insts[k].op_index + insts[k].op_count <= Len(st.operand_pool)
          /\ insts[k].op_count = OperandsWritten(insts[k].raw_text)
          /\ \A j \in 1..(k - 1) : insts[j].op_index + insts[j].op_count <= insts[k].op_index

\* lis r3, lbl@ha takes the entries 1 and 2 of the pool, b lbl the entry 3
C26_Witness ==
  LET insts == EmittedInstructions(st)
  IN /\ pc = "Done"
     /\ Len(insts) = 2
     /\ insts[1].op_index = 0 /\ insts[1].op_count = 2
     /\ insts[2].op_index = 2 /\ insts[2].op_count = 1
     /\ Len(st.operand_pool) = 3
     /\ Len(st.operand_fixups) = 3

(***************************************************************************)
(* The entries of the highlighter, under SpecHighlight                     *)
(***************************************************************************)
\* the entry cuts the text of its token out of the line of the token
CutsToken(text, entry, seen) ==
  /\ entry[2] = Len(seen.lexeme)
  /\ entry[1] + entry[2] <= Len(InputLine(text, seen.line))
  /\ Substr(InputLine(text, seen.line), entry[1], entry[2]) = seen.lexeme

\* C27: every entry of formatting is (column of the token, length of the
\* token, format), whatever callout recorded it, the declarations of labels
\* and variables included.
C27_FormattingEntries ==
  \A i \in DOMAIN st.formatting :
     CutsToken(st.lx.lex_string, st.formatting[i], st.format_log[i])

(***************************************************************************)
(* References to a label before and after its declaration, under SpecOrder *)
(***************************************************************************)
\* the operands that are the bare name of a label: a literal looked up in the
\* label table while the operand was parsed (the label was declared before) or
\* a symbol left to the fixup (the label was declared after); each with the
\* address L of the label and the address A of the instruction
BareLabelOperands(s) ==
  {[i |-> i, L |-> s.labels[s.operand_fixups[i].ref], A |-> s.operand_fixups[i].at,
    when |-> "backward"] :
     i \in {k \in DOMAIN s.operand_fixups :
              /\ s.operand_fixups[k].k = "lit"
              /\ s.operand_fixups[k].ref \in DOMAIN s.labels
              /\ s.operand_fixups[k].val = s.labels[s.operand_fixups[k].ref]}}
  \cup
  {[i |-> i, L |-> s.labels[s.operand_fixups[i].sym], A |-> s.operand_fixups[i].source_address,
    when |-> "forward"] :
     i \in {k \in DOMAIN s.operand_fixups :
              /\ s.operand_fixups[k].k = "sym"
              /\ s.operand_fixups[k].sym \in DOMAIN s.labels}}

\* C29: after a successful assembly two operands that are the bare name of a
\* label, with the same address of the label and the same address of the
\* instruction, have the same value, whether the label was declared before
\* the instruction or after it.
C29_OrderIndependent ==
  pc = "Done" /\ ~st.owner_error.has_value =>
     \A x, y \in BareLabelOperands(st) :
        x.L = y.L /\ x.A = y.A => st.operand_pool[x.i].val = st.operand_pool[y.i].val

(***************************************************************************)
(* The Action Replay lines, under SpecAr                                   *)
(***************************************************************************)
\* the lines the claim gives a block of n bytes: n \div 4 writes of 32 bits,
\* then n % 4 writes of 8 bits
ArLines(blk) ==
  LET n == Len(blk.instructions)
      base == 4 * (n \div 4)
  IN [q \in 1..(n \div 4) |->
        HexText(ArAddress(blk, 4 * (q - 1), Hex32(4, 0, 0, 0))) \o " " \o
        HexText(SubSeq(blk.instructions, 4 * q - 3, 4 * q)) \o "\n"]
     \o
     [r \in 1..(n % 4) |->
        HexText(ArAddress(blk, base + r - 1, U32(0))) \o " 000000" \o
        HexText(<<blk.instructions[base + r]>>) \o "\n"]

\* C30: DeserializeToAr reads only the indices 0..n-1 of a block of n bytes and,
\* when it returns, has written for every block that is not empty n \div 4
\* lines of 32 bits followed by n % 4 lines of 8 bits.
C30_ArOutput ==
  /\ \A r \in st.reads : r.index < Len(st.blocks[r.b].instructions)
  /\ pc # "Fault"
  /\ pc = "Done" =>
       st.out_str = Flatten([b \in DOMAIN st.blocks |-> ArLines(st.blocks[b])], 1)

(***************************************************************************)
(* The operands of the extended mnemonics, under SpecExtended              *)
(***************************************************************************)
\* C28: whatever extended mnemonic is parsed and however many operands its
\* ParseAlg accepted, the callback leaves exactly operand_count operands of
\* the descriptor of the base mnemonic, and none is dropped by an overfill.
C28_RewrittenCount ==
  pc = "Done" =>
     /\ st.operands.count = base_mnemonics[st.desc.mnemonic_index.mnemonic].operand_count
     /\ ~st.operands.overfill

====
